---- MODULE Spec2Model ----
(***************************************************************************)
(* The assistant launcher of packages/wrangler/src/opencode-integration.ts *)
(* (launchOpenCode, gatherProjectContext, runInteractiveSession,           *)
(* writeContextFile, getOpenCodeCommand) as a state machine, followed by   *)
(* several launchers running at once, scripts/publish-packages.js, the     *)
(* build script of the assistant package and the code command of           *)
(* packages/wrangler/src/code/index.ts.  Each program has its own          *)
(* variables, initial states and next-state relation; while one runs, the  *)
(* variables of the others stay as they are.                               *)
(*                                                                         *)
(* Strings the code inspects or builds (variable keys, error messages,     *)
(* paths, environment values) are sequences of one-character strings or of *)
(* literal pieces, so that toUpperCase, includes and template literals are *)
(* computed.  An optional JavaScript value is a sequence of length at most *)
(* one: <<>> is undefined, <<x>> is x.                                     *)
(***************************************************************************)
EXTENDS Integers, Sequences, FiniteSets, TLC

None == <<>>

Some(x) == <<x>>

IsSome(o) == o # <<>>

Get(o) == o[1]

\* a || b on an optional value: b when a is undefined
OrElse(o, d) == IF IsSome(o) THEN Get(o) ELSE d

Range(s) == {s[i] : i \in 1..Len(s)}

----------------------------------------------------------------------------
(* Strings *)

Lower == <<"a","b","c","d","e","f","g","h","i","j","k","l","m",
           "n","o","p","q","r","s","t","u","v","w","x","y","z">>

Upper == <<"A","B","C","D","E","F","G","H","I","J","K","L","M",
           "N","O","P","Q","R","S","T","U","V","W","X","Y","Z">>

ToUpperChar(c) ==
    IF \E i \in 1..Len(Lower) : Lower[i] = c
    THEN Upper[CHOOSE i \in 1..Len(Lower) : Lower[i] = c]
    ELSE c

\* String.prototype.toUpperCase
ToUpperCase(s) == [i \in 1..Len(s) |-> ToUpperChar(s[i])]

\* String.prototype.includes
Includes(s, sub) ==
    \E i \in 0..(Len(s) - Len(sub)) : SubSeq(s, i + 1, i + Len(sub)) = sub

Digits == <<"0","1","2","3","4","5","6","7","8","9">>

RECURSIVE Decimal(_)
\* String(n) of a non-negative integer
Decimal(n) ==
    IF n < 10 THEN <<Digits[n + 1]>>
    ELSE Decimal(n \div 10) \o <<Digits[(n % 10) + 1]>>

----------------------------------------------------------------------------
(* JSON.stringify, as the sequence of tokens it prints.  A property whose   *)
(* value is undefined is left out; an array prints every element.          *)

Quote == "\""

\* a string value given as one literal piece
JString(piece) == <<Quote, piece, Quote>>

\* a string value given by its characters
JChars(chars) == <<Quote>> \o chars \o <<Quote>>

RECURSIVE JoinTokens(_)
\* the printed items of a list, separated by commas
JoinTokens(items) ==
    IF items = <<>> THEN <<>>
    ELSE IF Len(items) = 1 THEN items[1]
    ELSE items[1] \o <<",">> \o JoinTokens(Tail(items))

\* an array of string pieces
JList(list) == <<"[">> \o JoinTokens([i \in 1..Len(list) |-> JString(list[i])]) \o <<"]">>

\* an array of strings given by their characters
JCharsList(list) == <<"[">> \o JoinTokens([i \in 1..Len(list) |-> JChars(list[i])]) \o <<"]">>

RECURSIVE DefinedFields(_)
\* the properties of an object that are not undefined, printed "name": value
DefinedFields(fields) ==
    IF fields = <<>> THEN <<>>
    ELSE LET f == fields[1]
             rest == DefinedFields(Tail(fields))
         IN IF IsSome(f.val)
            THEN <<JString(f.name) \o <<":">> \o Get(f.val)>> \o rest
            ELSE rest

JObject(fields) == <<"{">> \o JoinTokens(DefinedFields(fields)) \o <<"}">>

Field(n, v) == [name |-> n, val |-> v]

----------------------------------------------------------------------------
(* The project configuration and gatherProjectContext *)

SECRET == <<"S","E","C","R","E","T">>

KEY == <<"K","E","Y">>

TOKEN == <<"T","O","K","E","N">>

\* a filter that looks at the key as it is spelled
IsSecretKeyCaseSensitive(key) ==
    \/ Includes(key, SECRET)
    \/ Includes(key, KEY)
    \/ Includes(key, TOKEN)

\* the filter of bindings.secrets: the key, uppercased, contains one of the three
IsSecretKey(key) ==
    \/ Includes(ToUpperCase(key), SECRET)
    \/ Includes(ToUpperCase(key), KEY)
    \/ Includes(ToUpperCase(key), TOKEN)

PossibleConfigFiles == <<"wrangler.toml", "wrangler.json", "wrangler.jsonc">>

\* path.join(dir, name); a directory is the sequence of its components
JoinPath(dir, name) == dir \o <<name>>

RECURSIVE ExistingConfigFilesFirstOnly(_, _, _)
\* a loop that stops at the first file that exists
ExistingConfigFilesFirstOnly(projectRoot, present, i) ==
    IF i > Len(PossibleConfigFiles) THEN <<>>
    ELSE IF PossibleConfigFiles[i] \in present
         THEN <<JoinPath(projectRoot, PossibleConfigFiles[i])>>
         ELSE ExistingConfigFilesFirstOnly(projectRoot, present, i + 1)

RECURSIVE ExistingConfigFiles(_, _, _)
\* the loop over possibleConfigFiles: every file that exists, in that order
ExistingConfigFiles(projectRoot, present, i) ==
    IF i > Len(PossibleConfigFiles) THEN <<>>
    ELSE (IF PossibleConfigFiles[i] \in present
          THEN <<JoinPath(projectRoot, PossibleConfigFiles[i])>>
          ELSE <<>>) \o ExistingConfigFiles(projectRoot, present, i + 1)

\* wranglerConfig?.f
ConfigField(wranglerConfig, f) ==
    IF IsSome(wranglerConfig) THEN Get(wranglerConfig)[f] ELSE None

\* wranglerConfig?.f?.g
ConfigSubField(wranglerConfig, f, g) ==
    IF IsSome(ConfigField(wranglerConfig, f))
    THEN Get(ConfigField(wranglerConfig, f))[g]
    ELSE None

\* Object.keys(vars), in insertion order
ObjectKeys(vars) == [i \in 1..Len(vars) |-> vars[i].key]

\* Array.prototype.filter with the secrets predicate
FilterSecretKeys(keys) == SelectSeq(keys, IsSecretKey)

\* the bindings object literal
ExtractBindings(wranglerConfig) ==
    [ kv_namespaces |-> OrElse(ConfigField(wranglerConfig, "kv_namespaces"), <<>>),
      durable_objects |-> OrElse(ConfigSubField(wranglerConfig, "durable_objects", "bindings"), <<>>),
      r2_buckets |-> OrElse(ConfigField(wranglerConfig, "r2_buckets"), <<>>),
      d1_databases |-> OrElse(ConfigField(wranglerConfig, "d1_databases"), <<>>),
      queues |-> [ producers |-> OrElse(ConfigSubField(wranglerConfig, "queues", "producers"), <<>>),
                   consumers |-> OrElse(ConfigSubField(wranglerConfig, "queues", "consumers"), <<>>) ],
      services |-> OrElse(ConfigField(wranglerConfig, "services"), <<>>),
      analytics_engine_datasets |-> OrElse(ConfigField(wranglerConfig, "analytics_engine_datasets"), <<>>),
      ai |-> ConfigField(wranglerConfig, "ai"),
      browser |-> ConfigField(wranglerConfig, "browser"),
      vectorize |-> OrElse(ConfigField(wranglerConfig, "vectorize"), <<>>),
      hyperdrive |-> OrElse(ConfigField(wranglerConfig, "hyperdrive"), <<>>),
      workflows |-> OrElse(ConfigField(wranglerConfig, "workflows"), <<>>),
      mtls_certificates |-> OrElse(ConfigField(wranglerConfig, "mtls_certificates"), <<>>),
      dispatch_namespaces |-> OrElse(ConfigField(wranglerConfig, "dispatch_namespaces"), <<>>),
      vars |-> OrElse(ConfigField(wranglerConfig, "vars"), <<>>),
      secrets |-> FilterSecretKeys(ObjectKeys(OrElse(ConfigField(wranglerConfig, "vars"), <<>>))) ]

\* a read whose normalized configuration survives a failure of readConfig
ReadConfigsKeepsNormalized(in) ==
    IF in.read = "readRawConfig throws" THEN [rawConfig |-> None, wranglerConfig |-> None]
    ELSE [rawConfig |-> Some(in.file), wranglerConfig |-> Some(in.file)]

\* the try block that reads the configuration: the raw read first, then the
\* normalized read; a throw of either leaves what was not yet assigned undefined
ReadConfigs(in) ==
    IF in.read = "readRawConfig throws" THEN [rawConfig |-> None, wranglerConfig |-> None]
    ELSE IF in.read = "readConfig throws" THEN [rawConfig |-> Some(in.file), wranglerConfig |-> None]
    ELSE [rawConfig |-> Some(in.file), wranglerConfig |-> Some(in.file)]

\* gatherProjectContext, after process.cwd() returned projectRoot
GatherProjectContext(projectRoot, in) ==
    LET read == ReadConfigs(in)
    IN [ wranglerConfig |-> read.wranglerConfig,
         rawConfig |-> read.rawConfig,
         configFiles |-> ExistingConfigFiles(projectRoot, in.present, 1),
         projectRoot |-> projectRoot,
         workersRuntime |-> ConfigField(read.wranglerConfig, "compatibility_date"),
         bindings |-> ExtractBindings(read.wranglerConfig),
         environment |-> in.wranglerEnv,
         accountId |-> ConfigField(read.wranglerConfig, "account_id"),
         workerName |-> ConfigField(read.wranglerConfig, "name") ]

----------------------------------------------------------------------------
(* JSON.stringify(context, null, 2) *)

RECURSIVE PathString(_)
\* a path as the characters of its string: "/" for the root
PathString(dir) ==
    IF dir = <<>> THEN <<"/">>
    ELSE IF Len(dir) = 1 THEN <<"/", dir[1]>>
    ELSE PathString(SubSeq(dir, 1, Len(dir) - 1)) \o <<"/", dir[Len(dir)]>>

JPath(dir) == <<Quote>> \o PathString(dir) \o <<Quote>>

JPathList(list) == <<"[">> \o JoinTokens([i \in 1..Len(list) |-> JPath(list[i])]) \o <<"]">>

\* the vars object: every key with its value
JVars(vars) ==
    <<"{">> \o JoinTokens([i \in 1..Len(vars) |->
                  JChars(vars[i].key) \o <<":">> \o JString(vars[i].value)]) \o <<"}">>

OptList(o) == IF IsSome(o) THEN Some(JList(Get(o))) ELSE None

OptString(o) == IF IsSome(o) THEN Some(JString(Get(o))) ELSE None

OptVars(o) == IF IsSome(o) THEN Some(JVars(Get(o))) ELSE None

JDurableObjects(d) == JObject(<<Field("bindings", OptList(d.bindings))>>)

JQueuesConfig(q) ==
    JObject(<<Field("producers", OptList(q.producers)),
              Field("consumers", OptList(q.consumers))>>)

\* a configuration object (raw or normalized), property by property
JConfig(c) ==
    JObject(<<
        Field("name", OptString(c.name)),
        Field("account_id", OptString(c.account_id)),
        Field("compatibility_date", OptString(c.compatibility_date)),
        Field("kv_namespaces", OptList(c.kv_namespaces)),
        Field("durable_objects",
              IF IsSome(c.durable_objects) THEN Some(JDurableObjects(Get(c.durable_objects))) ELSE None),
        Field("r2_buckets", OptList(c.r2_buckets)),
        Field("d1_databases", OptList(c.d1_databases)),
        Field("queues",
              IF IsSome(c.queues) THEN Some(JQueuesConfig(Get(c.queues))) ELSE None),
        Field("services", OptList(c.services)),
        Field("analytics_engine_datasets", OptList(c.analytics_engine_datasets)),
        Field("ai", OptString(c.ai)),
        Field("browser", OptString(c.browser)),
        Field("vectorize", OptList(c.vectorize)),
        Field("hyperdrive", OptList(c.hyperdrive)),
        Field("workflows", OptList(c.workflows)),
        Field("mtls_certificates", OptList(c.mtls_certificates)),
        Field("dispatch_namespaces", OptList(c.dispatch_namespaces)),
        Field("vars", OptVars(c.vars)) >>)

\* the properties of the bindings object, each with its printed value
BindingsFields(b) ==
    <<
        Field("kv_namespaces", Some(JList(b.kv_namespaces))),
        Field("durable_objects", Some(JList(b.durable_objects))),
        Field("r2_buckets", Some(JList(b.r2_buckets))),
        Field("d1_databases", Some(JList(b.d1_databases))),
        Field("queues", Some(JObject(<<Field("producers", Some(JList(b.queues.producers))),
                                       Field("consumers", Some(JList(b.queues.consumers)))>>))),
        Field("services", Some(JList(b.services))),
        Field("analytics_engine_datasets", Some(JList(b.analytics_engine_datasets))),
        Field("ai", OptString(b.ai)),
        Field("browser", OptString(b.browser)),
        Field("vectorize", Some(JList(b.vectorize))),
        Field("hyperdrive", Some(JList(b.hyperdrive))),
        Field("workflows", Some(JList(b.workflows))),
        Field("mtls_certificates", Some(JList(b.mtls_certificates))),
        Field("dispatch_namespaces", Some(JList(b.dispatch_namespaces))),
        Field("vars", Some(JVars(b.vars))),
        Field("secrets", Some(JCharsList(b.secrets))) >>

JBindings(b) == JObject(BindingsFields(b))

\* the text writeContextFile writes
StringifyContext(context) ==
    JObject(<<
        Field("wranglerConfig",
              IF IsSome(context.wranglerConfig) THEN Some(JConfig(Get(context.wranglerConfig))) ELSE None),
        Field("rawConfig",
              IF IsSome(context.rawConfig) THEN Some(JConfig(Get(context.rawConfig))) ELSE None),
        Field("configFiles", Some(JPathList(context.configFiles))),
        Field("projectRoot", Some(JPath(context.projectRoot))),
        Field("workersRuntime", OptString(context.workersRuntime)),
        Field("bindings", Some(JBindings(context.bindings))),
        Field("environment", OptString(context.environment)),
        Field("accountId", OptString(context.accountId)),
        Field("workerName", OptString(context.workerName)) >>)

----------------------------------------------------------------------------
(* getOpenCodeCommand.  The file system it reads is the record fs:          *)
(*   workspaceEntry  whether ../../opencode/opencode/src/index.ts exists    *)
(*   requireDir      the directory require.resolve finds (undefined when    *)
(*                   require.resolve throws)                                *)
(*   installed       the directories D with                                 *)
(*                   D/node_modules/@jahands/opencode-cf/package.json       *)
(*   bins            the package directories holding bin/opencode           *)

WorkspaceOpenCodePath == <<"repo", "packages", "opencode", "opencode", "src", "index.ts">>

\* path.join(currentDir, "node_modules", "@jahands", "opencode-cf")
CandidatePath(currentDir) == currentDir \o <<"node_modules", "@jahands", "opencode-cf">>

\* path.resolve(dir, ".."): the root is its own parent
ParentDir(dir) == IF dir = <<>> THEN <<>> ELSE SubSeq(dir, 1, Len(dir) - 1)

RECURSIVE WalkUp(_, _)
\* the while loop of the fallback: from currentDir upwards, the first directory
\* whose node_modules holds the package; the loop ends when currentDir is its
\* own parent
WalkUp(currentDir, installed) ==
    IF currentDir = ParentDir(currentDir) THEN None
    ELSE IF currentDir \in installed THEN Some(CandidatePath(currentDir))
    ELSE WalkUp(ParentDir(currentDir), installed)

\* the inner try/catch: CommonJS resolution first, the walk when it throws
FindOpenCodeDir(fs, cwd) ==
    IF IsSome(fs.requireDir) THEN fs.requireDir ELSE WalkUp(cwd, fs.installed)

MsgNotInNodeModules == <<"Package not found in node_modules">>

MsgBinaryNotFound == <<"opencode binary not found in package">>

MsgPackageNotFound ==
    <<"opencode package not found. Please ensure @jahands/opencode-cf workspace package is available or @jahands/opencode-cf is installed.">>

Threw(message) == [threw |-> TRUE, message |-> message, command |-> <<>>, args |-> <<>>]

Returned(command, args) == [threw |-> FALSE, message |-> <<>>, command |-> command, args |-> args]

\* the body of the outer try: find the package directory, then its binary
TryInstalledPackage(fs, cwd) ==
    LET opencodeDir == FindOpenCodeDir(fs, cwd)
    IN IF ~IsSome(opencodeDir) THEN Threw(MsgNotInNodeModules)
       ELSE IF Get(opencodeDir) \in fs.bins
            THEN Returned(Get(opencodeDir) \o <<"bin", "opencode">>, <<>>)
            ELSE Threw(MsgBinaryNotFound)

\* the outer catch: whatever the try block threw is replaced
CatchInstalledPackage(attempt) ==
    IF attempt.threw THEN Threw(MsgPackageNotFound) ELSE attempt

\* a resolution that tries the installed package before the workspace
GetOpenCodeCommandInstalledFirst(fs, cwd) ==
    IF ~TryInstalledPackage(fs, cwd).threw THEN TryInstalledPackage(fs, cwd)
    ELSE IF fs.workspaceEntry
         THEN Returned(<<"bun">>, <<<<"run">>, WorkspaceOpenCodePath>>)
         ELSE Threw(MsgPackageNotFound)

GetOpenCodeCommand(fs, cwd) ==
    IF fs.workspaceEntry
    THEN Returned(<<"bun">>, <<<<"run">>, WorkspaceOpenCodePath>>)
    ELSE CatchInstalledPackage(TryInstalledPackage(fs, cwd))

----------------------------------------------------------------------------
(* launchOpenCode, runInteractiveSession and writeContextFile *)

\* A JavaScript value of args.prompt: its typeof and, for a string, its characters
JsUndefined == [t |-> "undefined", v |-> <<>>]

JsString(chars) == [t |-> "string", v |-> chars]

JsNumber(digits) == [t |-> "number", v |-> digits]

\* typeof args.prompt === "string" && args.prompt.length > 0 ? args.prompt : undefined
InitialPromptOf(prompt) ==
    IF prompt.t = "string" /\ Len(prompt.v) > 0 THEN Some(prompt.v) ELSE None

EnvNames == {"PATH", "OPENCODE_CONTEXT_FILE", "OPENCODE_INITIAL_PROMPT"}

NoEntries == [n \in EnvNames |-> None]

\* { ...base, ...over }: a property of over replaces the one of base
ObjectSpread(base, over) ==
    [n \in EnvNames |-> IF IsSome(over[n]) THEN over[n] ELSE base[n]]

\* initialPrompt && { OPENCODE_INITIAL_PROMPT: initialPrompt }; spreading a
\* falsy value adds nothing
PromptEntry(initialPrompt) ==
    IF IsSome(initialPrompt) /\ Len(Get(initialPrompt)) > 0
    THEN [NoEntries EXCEPT !["OPENCODE_INITIAL_PROMPT"] = initialPrompt]
    ELSE NoEntries

\* the env option of spawn
ChildEnv(env, contextFile, initialPrompt) ==
    ObjectSpread(
        ObjectSpread(env, [NoEntries EXCEPT !["OPENCODE_CONTEXT_FILE"] = Some(contextFile)]),
        PromptEntry(initialPrompt))

TmpDir == <<"tmp">>

\* join(tempDir, `wrangler-context-${Date.now()}.json`)
ContextFilePath(now) ==
    PathString(TmpDir) \o <<"/", "wrangler-context-">> \o Decimal(now) \o <<".json">>

\* `${code}` of the exit event's code: a number, or null when a signal ended the child
CodeString(code) == IF IsSome(code) THEN Decimal(Get(code)) ELSE <<"n","u","l","l">>

Resolve == [settle |-> "resolved", message |-> <<>>]

Reject(message) == [settle |-> "rejected", message |-> message]

\* an exit handler whose rejection does not say the code
ExitHandlerNoCode(code) ==
    IF code = Some(0) THEN Resolve ELSE Reject(<<"Wrangler AI exited">>)

\* an exit handler that resolves whatever the code
ExitHandlerIgnoresCode(code) == Resolve

\* child.on("exit", ...)
ExitHandler(code) ==
    IF code = Some(0) THEN Resolve
    ELSE Reject(<<"Wrangler AI exited with code ">> \o CodeString(code))

\* child.on("error", ...)
ErrorHandler(message) == Reject(<<"Failed to launch Wrangler AI: ">> \o message)

\* a write failure that is swallowed: the try block is entered all the same
AfterWriteSwallowed(writeOk) == "try"

\* writeContextFile is awaited before the try block: when it throws, neither the
\* try block nor the finally block runs
AfterWrite(writeOk) == IF writeOk THEN "try" ELSE "catch"

\* a cleanup that runs only when the try block did not throw
RunsCleanupOnSuccessOnly(thrown) == ~IsSome(thrown)

\* the finally block runs however the try block ended
RunsCleanup(thrown) == TRUE

\* fs.unlink(contextFile) inside try/catch: a failure is ignored and leaves the disk as it is
Unlink(d, path, fails) == IF fails THEN d ELSE [d EXCEPT ![path] = None]

\* a cleanup whose failure replaces what the try block threw
AfterUnlinkSurfaces(t, fails) == IF fails THEN Some(<<"EPERM: unlink">>) ELSE t

\* the empty catch block around unlink: what the try block threw, or nothing,
\* is what leaves the finally block
AfterUnlink(t, fails) == t

\* a promise that takes every call of resolve or reject
SettlePromiseLastWins(p, how) == how.settle

\* resolve() or reject(...) on the promise: only a pending promise is settled
SettlePromise(p, how) == IF p = "pending" THEN how.settle ELSE p

\* an await that goes on without the promise
AwaitPromiseTimesOut(p) == "finally"

\* await new Promise(...): the function goes on, into the finally block, once
\* the promise is settled
AwaitPromise(p) == IF p = "pending" THEN "waiting" ELSE "finally"

\* where runInteractiveSession's caller continues: its catch block when the
\* session threw
AfterSession(thrown) == IF IsSome(thrown) THEN "catch" ELSE "return"

ProcessExitStatus == 1

\* a catch block that logs and rethrows
LaunchCatchRethrows(message) ==
    [ launch |-> "threw",
      status |-> None,
      logged |-> << <<"Wrangler AI integration error: ">> \o message >> ]

\* the catch block of launchOpenCode: two log lines, then process.exit(1)
LaunchCatch(message) ==
    [ launch |-> "exited",
      status |-> Some(ProcessExitStatus),
      logged |-> << <<"Wrangler AI integration error: ">> \o message,
                    <<"Wrangler AI assistant is not available. Use 'wrangler --help' for available commands.">> >> ]

----------------------------------------------------------------------------
(* The environments explored *)

MaxDepth == 2

MaxVars == 2

MaxClock == 2

ComponentNames == <<"home", "proj", "pkg", "sub", "deep">>

\* the working directories: the root and the directories of one chain below it
Dirs == {SubSeq(ComponentNames, 1, k) : k \in 0..MaxDepth}

\* where require.resolve finds the package when it does not throw
RequirePkgDir == <<"opt", "wrangler", "node_modules", "@jahands", "opencode-cf">>

PackageDirs(requireDir, installed) ==
    {CandidatePath(d) : d \in installed} \cup (IF IsSome(requireDir) THEN {Get(requireDir)} ELSE {})

FsAll ==
    UNION { { [workspaceEntry |-> w, requireDir |-> r, installed |-> i, bins |-> b] :
                b \in SUBSET PackageDirs(r, i) } :
            w \in BOOLEAN, r \in {None, Some(RequirePkgDir)}, i \in SUBSET Dirs }

FsSmall == {f \in FsAll : f.installed = {}}

KeyApiKey == <<"A","P","I","_","K","E","Y">>

KeyMyToken == <<"m","y","T","o","k","e","n">>

KeyDebug == <<"D","E","B","U","G">>

KeyMonkey == <<"m","o","n","k","e","y">>

Keys == {KeyApiKey, KeyMyToken, KeyDebug, KeyMonkey}

Values == {"v1", "v2"}

VarEntries == {[key |-> k, value |-> v] : k \in Keys, v \in Values}

\* the vars objects of n properties: no key twice
VarsOf(n) == {s \in [1..n -> VarEntries] : \A i, j \in 1..n : i # j => s[i].key # s[j].key}

AllVars == UNION {VarsOf(n) : n \in 0..MaxVars}

\* a configuration file that sets nothing
EmptyFile ==
    [ name |-> None, account_id |-> None, compatibility_date |-> None,
      kv_namespaces |-> None, durable_objects |-> None, r2_buckets |-> None,
      d1_databases |-> None, queues |-> None, services |-> None,
      analytics_engine_datasets |-> None, ai |-> None, browser |-> None,
      vectorize |-> None, hyperdrive |-> None, workflows |-> None,
      mtls_certificates |-> None, dispatch_namespaces |-> None, vars |-> None ]

\* a configuration file that declares bindings of most kinds
RichFile ==
    [ EmptyFile EXCEPT
        !.name = Some("my-worker"), !.account_id = Some("acct"),
        !.compatibility_date = Some("2024-01-01"),
        !.kv_namespaces = Some(<<"KV">>), !.d1_databases = Some(<<"DB">>),
        !.durable_objects = Some([bindings |-> Some(<<"DO">>)]),
        !.queues = Some([producers |-> Some(<<"Q">>), consumers |-> None]),
        !.ai = Some("AI"), !.r2_buckets = Some(<<"R2", "R2B">>) ]

Files == {EmptyFile, RichFile} \cup {[EmptyFile EXCEPT !.vars = Some(v)] : v \in AllVars}

SmallFiles == {EmptyFile, [RichFile EXCEPT !.vars = Some(<<[key |-> KeyApiKey, value |-> "v1"]>>)]}

\* what gatherProjectContext reads: process.cwd() (undefined when it throws),
\* the configuration files present, how far the configuration reads get,
\* the configuration read, and WRANGLER_ENV
CfgInputs(cwds, presents, files) ==
    { [cwd |-> c, present |-> p, read |-> r, file |-> f, wranglerEnv |-> e] :
        c \in cwds, p \in presents, f \in files,
        r \in {"readRawConfig throws", "readConfig throws", "ok"},
        e \in {None} }

Prompts == {JsUndefined, JsString(<<>>), JsString(<<"h","e","l","l","o">>), JsNumber(<<"4","2">>)}

Stale == <<"s","t","a","l","e">>

\* process.env of the host: PATH, and each of the two variables the child reads
\* either unset or left over from an earlier session
HostEnvs ==
    { [n \in EnvNames |-> IF n = "PATH" THEN Some(<<"/bin">>)
                          ELSE IF n = "OPENCODE_CONTEXT_FILE" THEN c ELSE p] :
        c \in {None, Some(Stale)}, p \in {None, Some(Stale)} }

CleanEnv == [n \in EnvNames |-> IF n = "PATH" THEN Some(<<"/bin">>) ELSE None]

\* the codes an exit event reports: a number, or null after a signal
ExitCodes == {None} \cup {Some(c) : c \in {0, 1, 2, 127, 255}}

\* the messages of the errors the operating system reports
SpawnErrors == {<<"spawn ENOENT">>, <<"spawn EACCES">>}

Times == 1..MaxClock

ContextPaths == {ContextFilePath(t) : t \in Times}

----------------------------------------------------------------------------
(* One invocation of launchOpenCode *)

VARIABLES
    pc,             \* where the invocation stands
    args,           \* args.prompt
    hostEnv,        \* process.env
    cfgIn,          \* what gatherProjectContext reads
    fs,             \* what getOpenCodeCommand reads
    context,        \* the ProjectContext, once gathered
    initialPrompt,  \* the initial prompt passed to runInteractiveSession
    contextFile,    \* the path writeContextFile returned
    disk,           \* the temporary directory: the text of each context file, if it exists
    opencodeDir,    \* the package directory getOpenCodeCommand found
    child,          \* the spawned child: command, arguments and environment
    promise,        \* the promise awaited in the try block
    observed,       \* the child's event the promise was settled by
    thrown,         \* the message of the error being thrown
    unlinks,        \* how many times the cleanup called unlink
    log,            \* the steps taken, in order
    launch,         \* how launchOpenCode ended
    hostExit        \* the status the host process was terminated with

\* Several invocations of the launcher that share the temporary directory
VARIABLES
    clock,          \* what Date.now() returns
    inv             \* each invocation: where it stands, its project and its context file

\* One run of scripts/publish-packages.js
VARIABLES
    pubPc,          \* where main stands
    pubIn,          \* process.argv[2] and the two package.json files as the run found them
    manifests,      \* the two package.json files
    newVersions,    \* opencodeVersion and wranglerVersion, once computed
    steps,          \* the steps of main that ran, in order, each with its outcome
    exitCode        \* the status the script's process ended with

\* One run of the build script of the assistant package
VARIABLES
    bldPc,          \* where the script stands
    bldIn,          \* its flags, the host's platform and architecture, pkg.version
    version,        \* the version constant
    targetsLeft,    \* the targets the loop has yet to build
    dist,           \* the manifests under dist/
    optionalDependencies,   \* the record filled by the loop
    npm,            \* what bun publish has published
    binDirs,        \* the files of each dist/<name>/bin
    bldLog          \* the statements of the loop that ran, in order, each with its outcome

\* One run of the host tool's command line
VARIABLES
    cliPc,          \* where the run stands
    cliIn,          \* the command line given to main, and process.argv
    proxyCalls      \* the argument lists proxyToOpenCode was called with, in order

launchVars == <<pc, args, hostEnv, cfgIn, fs, context, initialPrompt, contextFile, disk,
                opencodeDir, child, promise, observed, thrown, unlinks, log, launch, hostExit>>

concurrentVars == <<clock, inv>>

publishVars == <<pubPc, pubIn, manifests, newVersions, steps, exitCode>>

buildVars == <<bldPc, bldIn, version, targetsLeft, dist, optionalDependencies, npm,
               binDirs, bldLog>>

cliVars == <<cliPc, cliIn, proxyCalls>>

otherVars == <<concurrentVars, publishVars, buildVars, cliVars>>

vars == <<launchVars, otherVars>>

\* no further invocation runs
NoInvocations == clock = 1 /\ inv = <<>>

\* the publish script is not run
NoPublish ==
    /\ pubPc = "not run"
    /\ pubIn = None
    /\ manifests = None
    /\ newVersions = None
    /\ steps = <<>>
    /\ exitCode = None

\* the command line is not run
NoCli ==
    /\ cliPc = "not run"
    /\ cliIn = None
    /\ proxyCalls = <<>>

\* the build script is not run
NoBuild ==
    /\ bldPc = "not run"
    /\ bldIn = None
    /\ version = None
    /\ targetsLeft = <<>>
    /\ dist = <<>>
    /\ optionalDependencies = <<>>
    /\ npm = <<>>
    /\ binDirs = <<>>
    /\ bldLog = <<>>

InitWith(cfgPool, promptPool, envPool, fsPool) ==
    /\ pc = "launch"
    /\ args \in promptPool
    /\ hostEnv \in envPool
    /\ cfgIn \in cfgPool
    /\ fs \in fsPool
    /\ context = None
    /\ initialPrompt = None
    /\ contextFile = None
    /\ disk = [p \in ContextPaths |-> None]
    /\ opencodeDir = None
    /\ child = None
    /\ promise = "none"
    /\ observed = None
    /\ thrown = None
    /\ unlinks = 0
    /\ log = <<>>
    /\ launch = "running"
    /\ hostExit = None
    /\ NoInvocations
    /\ NoPublish
    /\ NoBuild
    /\ NoCli

\* every argument and host environment, a few configurations, no package in
\* node_modules
Init ==
    InitWith(CfgInputs({None, Some(<<"home">>)}, {{}}, SmallFiles), Prompts, HostEnvs, FsSmall)

\* every state of the file system that the resolution reads, from every working directory
InitResolve ==
    InitWith(CfgInputs({Some(d) : d \in Dirs}, {{}}, {EmptyFile}),
             {JsUndefined}, {CleanEnv}, FsAll)

\* every configuration: every set of configuration files present, and every
\* content of the configuration read
InitContext ==
    InitWith(CfgInputs({Some(<<"home">>)}, SUBSET Range(PossibleConfigFiles), {EmptyFile, RichFile})
                 \cup CfgInputs({Some(<<"home">>)}, {{"wrangler.toml"}}, Files),
             {JsUndefined}, {CleanEnv},
             {f \in FsSmall : f.workspaceEntry})

\* const context = await gatherProjectContext()
Gather ==
    /\ pc = "launch"
    /\ IF IsSome(cfgIn.cwd)
       THEN /\ context' = Some(GatherProjectContext(Get(cfgIn.cwd), cfgIn))
            /\ pc' = "session"
            /\ thrown' = thrown
       ELSE /\ context' = context
            /\ pc' = "catch"
            /\ thrown' = Some(<<"ENOENT: no such file or directory, uv_cwd">>)
    /\ log' = Append(log, "gather")
    /\ UNCHANGED <<args, hostEnv, cfgIn, fs, initialPrompt, contextFile, disk, opencodeDir,
                   child, promise, observed, unlinks, launch, hostExit>>
    /\ UNCHANGED otherVars

\* the initial prompt is taken from args, runInteractiveSession is entered and
\* awaits writeContextFile: mkdir, then writeFile.  A writeFile that fails may
\* leave a truncated file behind.
WriteContextFile ==
    /\ pc = "session"
    /\ initialPrompt' = InitialPromptOf(args)
    /\ \E now \in Times, outcome \in {"ok", "mkdir fails", "writeFile fails", "writeFile truncates"} :
         LET path == ContextFilePath(now)
         IN /\ pc' = AfterWrite(outcome = "ok")
            /\ contextFile' = IF outcome = "ok" THEN Some(path) ELSE contextFile
            /\ disk' = IF outcome = "ok"
                       THEN [disk EXCEPT ![path] = Some(StringifyContext(Get(context)))]
                       ELSE IF outcome = "writeFile truncates"
                            THEN [disk EXCEPT ![path] = Some(<<>>)]
                            ELSE disk
            /\ thrown' = IF outcome = "ok" THEN thrown
                         ELSE IF outcome = "mkdir fails" THEN Some(<<"EACCES: mkdir">>)
                         ELSE Some(<<"ENOSPC: write">>)
            /\ log' = Append(log, IF outcome = "ok" THEN "write" ELSE "write failed")
    /\ UNCHANGED <<args, hostEnv, cfgIn, fs, context, opencodeDir, child, promise,
                   observed, unlinks, launch, hostExit>>
    /\ UNCHANGED otherVars

\* the try block up to the await: getOpenCodeCommand, spawn, and the two
\* listeners.  getOpenCodeCommand may throw; spawn may throw; otherwise spawn
\* returns the child and the promise is pending.
ResolveAndSpawn ==
    /\ pc = "try"
    /\ opencodeDir' = IF fs.workspaceEntry THEN None
                      ELSE FindOpenCodeDir(fs, Get(context).projectRoot)
    /\ LET found == GetOpenCodeCommand(fs, Get(context).projectRoot)
       IN IF found.threw
          THEN /\ thrown' = Some(found.message)
               /\ pc' = "finally"
               /\ log' = Append(log, "resolution failed")
               /\ UNCHANGED <<child, promise>>
          ELSE \E spawnThrows \in BOOLEAN :
                 IF spawnThrows
                 THEN /\ thrown' = Some(<<"spawn E2BIG">>)
                      /\ pc' = "finally"
                      /\ log' = Append(log, "spawn threw")
                      /\ UNCHANGED <<child, promise>>
                 ELSE /\ child' = Some([ command |-> found.command,
                                         args |-> found.args \o <<Get(context).projectRoot>>,
                                         env |-> ChildEnv(hostEnv, Get(contextFile), initialPrompt) ])
                      /\ promise' = "pending"
                      /\ pc' = AwaitPromise(promise')
                      /\ log' = Append(log, "spawn")
                      /\ UNCHANGED thrown
    /\ UNCHANGED <<args, hostEnv, cfgIn, fs, context, initialPrompt, contextFile, disk,
                   observed, unlinks, launch, hostExit>>
    /\ UNCHANGED otherVars

\* the promise is settled as the handler says and the await continues
Settle(event, how) ==
    /\ promise' = SettlePromise(promise, how)
    /\ observed' = Some(event)
    /\ thrown' = IF how.settle = "rejected" THEN Some(how.message) ELSE thrown
    /\ pc' = AwaitPromise(promise')
    /\ log' = Append(log, event.kind)
    /\ UNCHANGED <<args, hostEnv, cfgIn, fs, context, initialPrompt, contextFile, disk,
                   opencodeDir, child, unlinks, launch, hostExit>>
    /\ UNCHANGED otherVars

\* The child reports one event.  With stdio inherited and no kill, send or
\* abort signal in this code, Node emits "error" only when the process could
\* not be started, and then no "exit"; a started process emits "exit" once.

\* the child ends: its exit event
OnExit ==
    /\ pc = "waiting"
    /\ \E code \in ExitCodes :
         Settle([kind |-> "exit", code |-> code, message |-> <<>>], ExitHandler(code))

\* the child could not be started: its error event
OnError ==
    /\ pc = "waiting"
    /\ \E message \in SpawnErrors :
         Settle([kind |-> "error", code |-> None, message |-> message], ErrorHandler(message))

\* the finally block: unlink, whose failure is ignored
Cleanup ==
    /\ pc = "finally"
    /\ IF RunsCleanup(thrown)
       THEN \E fails \in BOOLEAN :
              /\ disk' = Unlink(disk, Get(contextFile), fails)
              /\ unlinks' = unlinks + 1
              /\ log' = Append(log, IF fails THEN "unlink failed" ELSE "unlink")
              /\ thrown' = AfterUnlink(thrown, fails)
       ELSE UNCHANGED <<disk, unlinks, log, thrown>>
    /\ pc' = AfterSession(thrown')
    /\ UNCHANGED <<args, hostEnv, cfgIn, fs, context, initialPrompt, contextFile,
                   opencodeDir, child, promise, observed, launch, hostExit>>
    /\ UNCHANGED otherVars

\* the catch block of launchOpenCode
Catch ==
    /\ pc = "catch"
    /\ launch' = LaunchCatch(Get(thrown)).launch
    /\ hostExit' = LaunchCatch(Get(thrown)).status
    /\ log' = Append(Append(log, "logger.error"), "logger.log") \o
              (IF LaunchCatch(Get(thrown)).launch = "exited" THEN <<"process.exit">> ELSE <<>>)
    /\ pc' = "done"
    /\ UNCHANGED <<args, hostEnv, cfgIn, fs, context, initialPrompt, contextFile, disk,
                   opencodeDir, child, promise, observed, thrown, unlinks>>
    /\ UNCHANGED otherVars

\* launchOpenCode returns
Return ==
    /\ pc = "return"
    /\ launch' = "returned"
    /\ pc' = "done"
    /\ UNCHANGED <<args, hostEnv, cfgIn, fs, context, initialPrompt, contextFile, disk,
                   opencodeDir, child, promise, observed, thrown, unlinks, log, hostExit>>
    /\ UNCHANGED otherVars

Next ==
    \/ Gather
    \/ WriteContextFile
    \/ ResolveAndSpawn
    \/ OnExit
    \/ OnError
    \/ Cleanup
    \/ Catch
    \/ Return

Spec == Init /\ [][Next]_vars

SpecResolve == InitResolve /\ [][Next]_vars

SpecContext == InitContext /\ [][Next]_vars

\* one project, an argument with and without a prompt
InitSession ==
    InitWith(CfgInputs({Some(<<"home">>)}, {{}}, {EmptyFile}),
             {JsUndefined, JsString(<<"h","e","l","l","o">>)}, {CleanEnv}, FsSmall)

\* The child object emits a second event after the one that settled the
\* promise (Node gives no guarantee that "exit" and "error" exclude each other):
\* the listener of that event runs and calls resolve or reject on the settled
\* promise.  The host process must still be running.
LateEvent ==
    /\ IsSome(observed)
    /\ launch # "exited"
    /\ \E kind \in {"exit", "error"} \ {Get(observed).kind} :
         /\ (IF kind = "exit" THEN "late exit" ELSE "late error") \notin Range(log)
         /\ \E how \in {ExitHandler(code) : code \in ExitCodes}
                        \cup {ErrorHandler(message) : message \in SpawnErrors} :
              /\ (kind = "error") = (how \in {ErrorHandler(message) : message \in SpawnErrors})
              /\ promise' = SettlePromise(promise, how)
         /\ log' = Append(log, IF kind = "exit" THEN "late exit" ELSE "late error")
    /\ UNCHANGED <<pc, args, hostEnv, cfgIn, fs, context, initialPrompt, contextFile, disk,
                   opencodeDir, child, observed, thrown, unlinks, launch, hostExit>>
    /\ UNCHANGED otherVars

NextEvents ==
    \/ Next
    \/ LateEvent

\* the launch with a child that may emit both events
SpecEvents == InitSession /\ [][NextEvents]_vars

\* The launch under fair scheduling of what follows the await: once the
\* promise is settled the event loop runs the continuation, so the finally
\* block, the catch block and the return are taken when they can be.  Nothing
\* makes the child end, so its events carry no fairness.
SpecLive ==
    /\ InitSession
    /\ [][Next]_vars
    /\ WF_vars(Cleanup)
    /\ WF_vars(Catch)
    /\ WF_vars(Return)

----------------------------------------------------------------------------
(* Several invocations of launchOpenCode at once.  Each is its own host      *)
(* process; they share the clock and the temporary directory.               *)

NumInvocations == 2

Invocations == 1..NumInvocations

\* launchOpenCode is not called in this process
NoLaunch ==
    /\ pc = "not run"
    /\ args = JsUndefined
    /\ hostEnv = CleanEnv
    /\ cfgIn = None
    /\ fs = None
    /\ context = None
    /\ initialPrompt = None
    /\ contextFile = None
    /\ disk = [p \in ContextPaths |-> None]
    /\ opencodeDir = None
    /\ child = None
    /\ promise = "none"
    /\ observed = None
    /\ thrown = None
    /\ unlinks = 0
    /\ log = <<>>
    /\ launch = "running"
    /\ hostExit = None

\* the launcher's variables other than the temporary directory
launchVarsButDisk ==
    <<pc, args, hostEnv, cfgIn, fs, context, initialPrompt, contextFile,
      opencodeDir, child, promise, observed, thrown, unlinks, log, launch, hostExit>>

\* invocation i runs in its own project directory, without a configuration
ProjectOf(i) == SubSeq(ComponentNames, 1, i)

\* the context invocation i gathered
ContextOf(i) ==
    GatherProjectContext(ProjectOf(i),
        [cwd |-> Some(ProjectOf(i)), present |-> {}, read |-> "readRawConfig throws",
         file |-> EmptyFile, wranglerEnv |-> None])

\* each invocation has gathered its context and enters runInteractiveSession
InitConcurrent ==
    /\ NoLaunch
    /\ clock = 1
    /\ inv = [i \in Invocations |-> [pc |-> "session", contextFile |-> None]]
    /\ NoPublish
    /\ NoBuild
    /\ NoCli

\* time passes
Tick ==
    /\ clock < MaxClock
    /\ clock' = clock + 1
    /\ UNCHANGED <<inv, launchVars, publishVars, buildVars, cliVars>>

\* invocation i awaits writeContextFile, which names the file after the clock
InvWriteContextFile(i) ==
    /\ inv[i].pc = "session"
    /\ \E outcome \in {"ok", "mkdir fails", "writeFile fails", "writeFile truncates"} :
         LET path == ContextFilePath(clock)
         IN /\ inv' = [inv EXCEPT ![i] =
                          [ pc |-> IF AfterWrite(outcome = "ok") = "try" THEN "try" ELSE "settled",
                            contextFile |-> IF outcome = "ok" THEN Some(path) ELSE None ]]
            /\ disk' = IF outcome = "ok"
                       THEN [disk EXCEPT ![path] = Some(StringifyContext(ContextOf(i)))]
                       ELSE IF outcome = "writeFile truncates"
                            THEN [disk EXCEPT ![path] = Some(<<>>)]
                            ELSE disk
    /\ UNCHANGED <<clock, launchVarsButDisk, publishVars, buildVars, cliVars>>

\* invocation i resolves the command and spawns its child, or fails to
InvResolveAndSpawn(i) ==
    /\ inv[i].pc = "try"
    /\ \E started \in BOOLEAN :
         inv' = [inv EXCEPT ![i].pc = IF started THEN "waiting" ELSE "finally"]
    /\ UNCHANGED <<clock, launchVars, publishVars, buildVars, cliVars>>

\* the child of invocation i reports exit or error
InvChildEvent(i) ==
    /\ inv[i].pc = "waiting"
    /\ inv' = [inv EXCEPT ![i].pc = "finally"]
    /\ UNCHANGED <<clock, launchVars, publishVars, buildVars, cliVars>>

\* the finally block of invocation i
InvCleanup(i) ==
    /\ inv[i].pc = "finally"
    /\ \E fails \in BOOLEAN : disk' = Unlink(disk, Get(inv[i].contextFile), fails)
    /\ inv' = [inv EXCEPT ![i].pc = "settled"]
    /\ UNCHANGED <<clock, launchVarsButDisk, publishVars, buildVars, cliVars>>

NextConcurrent ==
    \/ Tick
    \/ \E i \in Invocations : InvWriteContextFile(i)
    \/ \E i \in Invocations : InvResolveAndSpawn(i)
    \/ \E i \in Invocations : InvChildEvent(i)
    \/ \E i \in Invocations : InvCleanup(i)

SpecConcurrent == InitConcurrent /\ [][NextConcurrent]_vars

----------------------------------------------------------------------------
(* scripts/publish-packages.js.  A version is the characters of its string;  *)
(* a package.json is a record of its name, its version and, as an optional   *)
(* value, its dependencies object reduced to the entry of the assistant      *)
(* package (itself optional).                                                *)

\* A JavaScript value that arithmetic is done on
NumberValue(n) == [t |-> "number", n |-> n]

NaN == [t |-> "NaN", n |-> 0]

Undefined == [t |-> "undefined", n |-> 0]

IsDigits(chars) == \A i \in 1..Len(chars) : chars[i] \in Range(Digits)

DigitValue(c) == (CHOOSE i \in 1..Len(Digits) : Digits[i] = c) - 1

RECURSIVE DigitsValue(_)
DigitsValue(chars) ==
    IF chars = <<>> THEN 0
    ELSE 10 * DigitsValue(SubSeq(chars, 1, Len(chars) - 1)) + DigitValue(chars[Len(chars)])

\* Number(string) for the strings met here: decimal digits give their value,
\* the empty string gives 0, anything else NaN
ToNumber(chars) == IF IsDigits(chars) THEN NumberValue(DigitsValue(chars)) ELSE NaN

RECURSIVE SplitDots(_)
\* String.prototype.split(".")
SplitDots(chars) ==
    IF \E i \in 1..Len(chars) : chars[i] = "."
    THEN LET dot == CHOOSE i \in 1..Len(chars) :
                        chars[i] = "." /\ \A j \in 1..(i - 1) : chars[j] # "."
         IN <<SubSeq(chars, 1, dot - 1)>> \o SplitDots(SubSeq(chars, dot + 1, Len(chars)))
    ELSE <<chars>>

\* an element of an array destructuring: undefined past the end
ElementAt(list, i) == IF i <= Len(list) THEN list[i] ELSE Undefined

\* v + 1
AddOne(v) == IF v.t = "number" THEN NumberValue(v.n + 1) ELSE NaN

\* `${v}`
TemplateString(v) ==
    IF v.t = "number" THEN Decimal(v.n)
    ELSE IF v.t = "NaN" THEN <<"N","a","N">>
    ELSE <<"u","n","d","e","f","i","n","e","d">>

\* a bump that leaves the lower components as they are
BumpVersionKeepsLower(current, bumpType) ==
    LET numbers == [i \in 1..Len(SplitDots(current)) |-> ToNumber(SplitDots(current)[i])]
        major == ElementAt(numbers, 1)
        minor == ElementAt(numbers, 2)
        patch == ElementAt(numbers, 3)
    IN TemplateString(IF bumpType = "major" THEN AddOne(major) ELSE major) \o <<".">> \o
       TemplateString(IF bumpType = "minor" THEN AddOne(minor) ELSE minor) \o <<".">> \o
       TemplateString(IF bumpType \notin {"major", "minor"} THEN AddOne(patch) ELSE patch)

\* the new version updatePackageVersion computes
BumpVersion(current, bumpType) ==
    LET numbers == [i \in 1..Len(SplitDots(current)) |-> ToNumber(SplitDots(current)[i])]
        major == ElementAt(numbers, 1)
        minor == ElementAt(numbers, 2)
        patch == ElementAt(numbers, 3)
    IN IF bumpType = "major"
       THEN TemplateString(AddOne(major)) \o <<".", "0", ".", "0">>
       ELSE IF bumpType = "minor"
            THEN TemplateString(major) \o <<".">> \o TemplateString(AddOne(minor)) \o <<".", "0">>
            ELSE TemplateString(major) \o <<".">> \o TemplateString(minor) \o <<".">> \o
                 TemplateString(AddOne(patch))

\* an updatePackageVersion that returns the new version and writes nothing
UpdatePackageVersionNoWrite(pkg, bumpType) ==
    [ pkg |-> pkg, newVersion |-> BumpVersion(pkg.version, bumpType) ]

\* updatePackageVersion: the package.json written and the version returned
UpdatePackageVersion(pkg, bumpType) ==
    [ pkg |-> [pkg EXCEPT !.version = BumpVersion(pkg.version, bumpType)],
      newVersion |-> BumpVersion(pkg.version, bumpType) ]

\* pkg.dependencies && pkg.dependencies['@jahands/opencode-cf'] is truthy
DeclaresOpencode(pkg) ==
    /\ IsSome(pkg.dependencies)
    /\ IsSome(Get(pkg.dependencies))
    /\ Get(Get(pkg.dependencies)) # <<>>

\* updateWranglerDependency: the package.json afterwards
UpdateWranglerDependency(pkg, opencodeVersion) ==
    IF DeclaresOpencode(pkg)
    THEN [pkg EXCEPT !.dependencies = Some(Some(<<"^">> \o opencodeVersion))]
    ELSE pkg

\* process.argv[2] || 'patch'
BumpTypeOf(argv2) == IF IsSome(argv2) /\ Get(argv2) # "" THEN Get(argv2) ELSE "patch"

\* a list of bump types that lets premajor through
ValidBumpTypesAndPremajor == <<"patch", "minor", "major", "premajor">>

ValidBumpTypes == <<"patch", "minor", "major">>

\* a main that publishes the host tool before the assistant
MainStepsWranglerFirst ==
    << "bump opencode", "bump wrangler", "update dependency", "build",
       "publish wrangler", "publish opencode", "git add", "git commit" >>

\* the steps of main, in the order of its statements
MainSteps ==
    << "bump opencode", "bump wrangler", "update dependency", "build",
       "publish opencode", "publish wrangler", "git add", "git commit" >>

\* what main does after a step that returned
After(step) ==
    LET at == CHOOSE i \in 1..Len(MainSteps) : MainSteps[i] = step
    IN IF at < Len(MainSteps) THEN MainSteps[at + 1] ELSE "done"

\* an execCommand that goes on after a failed command
ExecCommandIgnoresFailure(ok) == "returned"

\* execCommand: execSync throws when the command fails, and the catch block
\* ends the process
ExecCommand(ok) == IF ok THEN "returned" ELSE "exited"

PublishExitStatus == 1

\* the status Node ends the process with after an uncaught exception
UncaughtExceptionStatus == 1

MaxPart == 3

VersionParts == (0..MaxPart) \cup {9}

\* the version string M.m.p
SemVer(M, m, p) == Decimal(M) \o <<".">> \o Decimal(m) \o <<".">> \o Decimal(p)

\* versions that are not three numbers
OddVersions == { <<"1", ".", "0", ".", "0", "-", "r", "c">>, <<"1", ".", "2">> }

OpencodeVersions == {SemVer(M, m, p) : M, m, p \in VersionParts} \cup OddVersions

\* the host tool is at the assistant's version or at one of its own
WranglerVersions(opencodeVersion) == {opencodeVersion, SemVer(4, 9, 0), <<"1", ".", "2">>}

\* the dependencies of the host tool's package.json: none, none on the
\* assistant, or a range on the assistant
WranglerDependencies ==
    { None, Some(None), Some(Some(<<>>)),
      Some(Some(<<"^", "0", ".", "0", ".", "1">>)), Some(Some(<<"workspace:*">>)) }

Argv2 == {None, Some(""), Some("patch"), Some("minor"), Some("major"), Some("premajor")}

PublishInputs ==
    UNION { { [ argv2 |-> a,
                opencode |-> [name |-> "@jahands/opencode-cf", version |-> v, dependencies |-> None],
                wrangler |-> [name |-> "@jahands/wrangler", version |-> w, dependencies |-> d] ] :
              a \in Argv2, w \in WranglerVersions(v), d \in WranglerDependencies } :
            v \in OpencodeVersions }

InitPublish ==
    /\ NoLaunch
    /\ NoInvocations
    /\ NoBuild
    /\ NoCli
    /\ pubPc = "main"
    /\ pubIn \in PublishInputs
    /\ manifests = [opencode |-> pubIn.opencode, wrangler |-> pubIn.wrangler]
    /\ newVersions = [opencode |-> None, wrangler |-> None]
    /\ steps = <<>>
    /\ exitCode = None

\* main, up to the first step: the bump type is validated
ValidateBumpType ==
    /\ pubPc = "main"
    /\ IF BumpTypeOf(pubIn.argv2) \in Range(ValidBumpTypes)
       THEN pubPc' = MainSteps[1] /\ exitCode' = exitCode
       ELSE pubPc' = "exited" /\ exitCode' = Some(PublishExitStatus)
    /\ UNCHANGED <<pubIn, manifests, newVersions, steps, launchVars, concurrentVars, buildVars, cliVars>>

\* a step that reads, parses and writes a package.json: any of the three may
\* throw, and nothing in the script catches it
FileStep(step, which, pkgAfter, versionsAfter) ==
    /\ pubPc = step
    /\ \E throws \in BOOLEAN :
         /\ steps' = Append(steps, [step |-> step, ok |-> ~throws])
         /\ IF throws
            THEN /\ pubPc' = "exited"
                 /\ exitCode' = Some(UncaughtExceptionStatus)
                 /\ UNCHANGED <<manifests, newVersions>>
            ELSE /\ pubPc' = After(step)
                 /\ exitCode' = exitCode
                 /\ manifests' = [manifests EXCEPT ![which] = pkgAfter]
                 /\ newVersions' = versionsAfter
    /\ UNCHANGED <<pubIn, launchVars, concurrentVars, buildVars, cliVars>>

\* const opencodeVersion = updatePackageVersion('packages/opencode/opencode', bumpType)
BumpOpencode ==
    LET updated == UpdatePackageVersion(manifests.opencode, BumpTypeOf(pubIn.argv2))
    IN FileStep("bump opencode", "opencode", updated.pkg,
                [newVersions EXCEPT !.opencode = Some(updated.newVersion)])

\* const wranglerVersion = updatePackageVersion('packages/wrangler', bumpType)
BumpWrangler ==
    LET updated == UpdatePackageVersion(manifests.wrangler, BumpTypeOf(pubIn.argv2))
    IN FileStep("bump wrangler", "wrangler", updated.pkg,
                [newVersions EXCEPT !.wrangler = Some(updated.newVersion)])

\* updateWranglerDependency(opencodeVersion)
UpdateDependency ==
    FileStep("update dependency", "wrangler",
             UpdateWranglerDependency(manifests.wrangler, Get(newVersions.opencode)),
             newVersions)

\* a step that is one execCommand; after the last one main returns and the
\* process ends with status 0
CommandStep(step) ==
    /\ pubPc = step
    /\ \E ok \in BOOLEAN :
         /\ steps' = Append(steps, [step |-> step, ok |-> ok])
         /\ IF ExecCommand(ok) = "returned"
            THEN /\ pubPc' = After(step)
                 /\ exitCode' = IF After(step) = "done" THEN Some(0) ELSE exitCode
            ELSE /\ pubPc' = "exited"
                 /\ exitCode' = Some(PublishExitStatus)
    /\ UNCHANGED <<pubIn, manifests, newVersions, launchVars, concurrentVars, buildVars, cliVars>>

\* execCommand('pnpm turbo build ...')
Build == CommandStep("build")

\* execCommand('pnpm publish', { cwd: 'packages/opencode/opencode' })
PublishOpencode == CommandStep("publish opencode")

\* execCommand('pnpm publish', { cwd: 'packages/wrangler' })
PublishWrangler == CommandStep("publish wrangler")

\* execCommand('git add ...')
GitAdd == CommandStep("git add")

\* execCommand(`git commit -m ...`)
GitCommit == CommandStep("git commit")

NextPublish ==
    \/ ValidateBumpType
    \/ BumpOpencode
    \/ BumpWrangler
    \/ UpdateDependency
    \/ Build
    \/ PublishOpencode
    \/ PublishWrangler
    \/ GitAdd
    \/ GitCommit

SpecPublish == InitPublish /\ [][NextPublish]_vars

----------------------------------------------------------------------------
(* The build script of the assistant package (the Bun script of             *)
(* packages/opencode/tui/scripts/build.sh).  A package name is the sequence  *)
(* of the pieces of its template literal; a manifest is a record whose os,   *)
(* cpu and optionalDependencies are optional values.                        *)

\* new Date().toISOString(), the clock counting the minutes of one hour
IsoString(now) ==
    <<"2","0","2","5","-","0","1","-","0","1","T","0","0",":">> \o
    (IF now < 10 THEN <<"0">> ELSE <<>>) \o Decimal(now) \o
    <<":","0","0",".","0","0","0","Z">>

\* .slice(0, 16).replace(/[-:T]/g, "")
StripDateMarks(chars) ==
    SelectSeq(SubSeq(chars, 1, 16), LAMBDA c : c \notin {"-", ":", "T"})

\* the version constant
BuildVersion(snapshot, devBuild, pkgVersion, now) ==
    IF snapshot THEN <<"0", ".", "0", ".", "0", "-">> \o StripDateMarks(IsoString(now))
    ELSE IF devBuild THEN <<"0", ".", "0", ".", "0", "-", "d", "e", "v", "-">> \o Decimal(now)
    ELSE pkgVersion

AllTargets ==
    << <<"linux", "arm64">>, <<"linux", "x64">>, <<"darwin", "x64">>,
       <<"darwin", "arm64">>, <<"windows", "x64">> >>

\* the targets constant: the host alone for a development build
BuildTargets(devBuild, platform, arch) ==
    IF devBuild
    THEN << << IF platform = "win32" THEN "windows" ELSE platform,
               IF arch = "x64" THEN "x64" ELSE "arm64" >> >>
    ELSE AllTargets

\* `@jahands/opencode-cf-${os}-${arch}`
TargetName(os, arch) == <<"@jahands/opencode-cf", "-", os, "-", arch>>

MainPackageName == <<"@jahands/opencode-cf">>

ExecutableName(os) == IF os = "windows" THEN "opencode.exe" ELSE "opencode"

\* a platform manifest whose os array keeps the build's own name for windows
TargetManifestWindowsOs(name, os, arch, v) ==
    [ name |-> name,
      version |-> v,
      os |-> Some(<<os>>),
      cpu |-> Some(<<arch>>),
      main |-> <<"./bin/", ExecutableName(os)>>,
      bin |-> [opencode |-> <<"./bin/", ExecutableName(os)>>],
      optionalDependencies |-> None ]

\* a platform manifest that carries a version of its own
TargetManifestOwnVersion(name, os, arch, v) ==
    [ name |-> name,
      version |-> <<"0", ".", "0", ".", "0">>,
      os |-> Some(<<IF os = "windows" THEN "win32" ELSE os>>),
      cpu |-> Some(<<arch>>),
      main |-> <<"./bin/", ExecutableName(os)>>,
      bin |-> [opencode |-> <<"./bin/", ExecutableName(os)>>],
      optionalDependencies |-> None ]

\* the platform-specific package.json
TargetManifest(name, os, arch, v) ==
    [ name |-> name,
      version |-> v,
      os |-> Some(<<IF os = "windows" THEN "win32" ELSE os>>),
      cpu |-> Some(<<arch>>),
      main |-> <<"./bin/", ExecutableName(os)>>,
      bin |-> [opencode |-> <<"./bin/", ExecutableName(os)>>],
      optionalDependencies |-> None ]

\* the package.json of the main wrapper package
WrapperManifest(v, deps) ==
    [ name |-> MainPackageName,
      version |-> v,
      os |-> None,
      cpu |-> None,
      main |-> <<"./bin/", "opencode">>,
      bin |-> [opencode |-> <<"./bin/", "opencode">>],
      optionalDependencies |-> Some(deps) ]

\* obj[name] = value: a property that exists is replaced where it stands
SetProperty(obj, name, value) ==
    IF \E i \in 1..Len(obj) : obj[i].name = name
    THEN [i \in 1..Len(obj) |-> IF obj[i].name = name THEN [name |-> name, value |-> value] ELSE obj[i]]
    ELSE Append(obj, [name |-> name, value |-> value])

\* Bun.file(`dist/${name}/package.json`).write(...): the file of that name is replaced
WriteManifest(d, manifest) ==
    IF \E i \in 1..Len(d) : d[i].name = manifest.name
    THEN [i \in 1..Len(d) |-> IF d[i].name = manifest.name THEN manifest ELSE d[i]]
    ELSE Append(d, manifest)

\* a publish condition that forgets the development build
ShouldPublishUnlessDry(dry, devBuild) == ~dry

\* !dry && !devBuild
ShouldPublish(dry, devBuild) == ~dry /\ ~devBuild

NpmTag(snapshot) == IF snapshot THEN "snapshot" ELSE "latest"

\* the files of dist/<name>/bin, none when the directory does not exist
FilesOf(bins, name) == IF name \in DOMAIN bins THEN bins[name] ELSE {}

\* dist/<name>/bin with the given files, created when it does not exist
PutFiles(bins, name, files) ==
    [n \in DOMAIN bins \cup {name} |-> IF n = name THEN files ELSE bins[n]]

\* an iteration that bundles before the native binary is compiled
TargetStepsBundleFirst ==
    <<"mkdir", "bun build", "go build", "rm tui", "write manifest", "bun publish", "record">>

\* the statements of one iteration of the loop, in the order of the body
TargetSteps ==
    <<"mkdir", "go build", "bun build", "rm tui", "write manifest", "bun publish", "record">>

\* bun build is given ./dist/<name>/bin/tui to embed: without that file it fails
StepFails(st, step, name) ==
    step = "bun build" /\ "tui" \notin FilesOf(st.binDirs, name)

\* what one statement of the iteration does when it succeeds
TargetStep(st, step, os, arch, v, tag) ==
    LET name == TargetName(os, arch)
    IN CASE step = "mkdir" ->
              [st EXCEPT !.binDirs = PutFiles(@, name, FilesOf(@, name))]
         [] step = "go build" ->
              [st EXCEPT !.binDirs = PutFiles(@, name, FilesOf(@, name) \cup {"tui"})]
         [] step = "bun build" ->
              [st EXCEPT !.binDirs = PutFiles(@, name, FilesOf(@, name) \cup {ExecutableName(os)})]
         [] step = "rm tui" ->
              [st EXCEPT !.binDirs = PutFiles(@, name, FilesOf(@, name) \ {"tui"})]
         [] step = "write manifest" ->
              [st EXCEPT !.dist = WriteManifest(@, TargetManifest(name, os, arch, v))]
         [] step = "bun publish" ->
              [st EXCEPT !.npm = Append(@, [name |-> name, version |-> v, tag |-> tag])]
         [] step = "record" ->
              [st EXCEPT !.optionalDependencies = SetProperty(@, name, v)]

\* the body of the loop from its k-th statement on; the statement failAt, or
\* one that cannot succeed, throws and ends the script
RECURSIVE RunTarget(_, _, _, _, _, _)
RunTarget(st, k, failAt, target, v, in) ==
    IF k > Len(TargetSteps) THEN st
    ELSE LET step == TargetSteps[k]
             skipped == step = "bun publish" /\ ~ShouldPublish(in.dry, in.devBuild)
             fails == k = failAt \/ StepFails(st, step, TargetName(target[1], target[2]))
             entry(ok) == [target |-> target, step |-> step, ok |-> ok]
         IN IF skipped THEN RunTarget(st, k + 1, failAt, target, v, in)
            ELSE IF fails THEN [st EXCEPT !.log = Append(@, entry(FALSE)), !.ok = FALSE]
            ELSE RunTarget([TargetStep(st, step, target[1], target[2], v, NpmTag(in.snapshot))
                                EXCEPT !.log = Append(@, entry(TRUE))],
                           k + 1, failAt, target, v, in)

\* a wrapper manifest left in dist by an earlier build
StaleManifest ==
    WrapperManifest(<<"0", ".", "0", ".", "1">>,
                    <<[name |-> TargetName("linux", "x64"), value |-> <<"0", ".", "0", ".", "1">>]>>)

BuildInputs ==
    { [ dry |-> d, snapshot |-> sn, devBuild |-> dev, platform |-> pf, arch |-> a, pkgVersion |-> v ] :
        d \in BOOLEAN, sn \in BOOLEAN, dev \in BOOLEAN,
        pf \in {"linux", "darwin", "win32"}, a \in {"x64", "arm64", "ia32"},
        v \in {SemVer(0, 1, 0), SemVer(1, 2, 3)} }

InitBuild ==
    /\ NoLaunch
    /\ NoPublish
    /\ NoCli
    /\ clock \in Times
    /\ inv = <<>>
    /\ bldPc = "start"
    /\ bldIn \in BuildInputs
    /\ version = None
    /\ targetsLeft = <<>>
    /\ dist \in {<<>>, <<StaleManifest>>}
    /\ binDirs = IF dist = <<>> THEN <<>> ELSE PutFiles(<<>>, MainPackageName, {"opencode"})
    /\ optionalDependencies = <<>>
    /\ npm = <<>>
    /\ bldLog = <<>>

\* the script up to the loop: the version and the targets are fixed, dist is
\* removed, and the script ends with status 1 when the TUI source is missing
StartBuild ==
    /\ bldPc = "start"
    /\ version' = Some(BuildVersion(bldIn.snapshot, bldIn.devBuild, bldIn.pkgVersion, clock))
    /\ optionalDependencies' = <<>>
    /\ \E outcome \in {"ok", "rm fails", "main.go missing"} :
         /\ dist' = IF outcome = "rm fails" THEN dist ELSE <<>>
         /\ binDirs' = IF outcome = "rm fails" THEN binDirs ELSE <<>>
         /\ bldPc' = IF outcome = "ok" THEN "loop" ELSE "aborted early"
         /\ targetsLeft' = IF outcome = "ok"
                           THEN BuildTargets(bldIn.devBuild, bldIn.platform, bldIn.arch)
                           ELSE targetsLeft
    /\ UNCHANGED <<bldIn, npm, bldLog, clock, inv, launchVars, publishVars, cliVars>>

\* one iteration of the loop over the targets: make the bin directory, compile
\* the native binary, bundle, remove the native binary, write the manifest,
\* publish unless dry or a development build, record the optional dependency;
\* a statement that fails ends the script
BuildTarget ==
    /\ bldPc = "loop"
    /\ targetsLeft # <<>>
    /\ \E failAt \in 0..Len(TargetSteps) :
         /\ failAt # 0 =>
              /\ TargetSteps[failAt] # "record"
              /\ TargetSteps[failAt] = "bun publish" => ShouldPublish(bldIn.dry, bldIn.devBuild)
         /\ LET before == [ dist |-> dist, binDirs |-> binDirs, npm |-> npm,
                            optionalDependencies |-> optionalDependencies,
                            log |-> bldLog, ok |-> TRUE ]
                after == RunTarget(before, 1, failAt, targetsLeft[1], Get(version), bldIn)
            IN /\ dist' = after.dist
               /\ binDirs' = after.binDirs
               /\ npm' = after.npm
               /\ optionalDependencies' = after.optionalDependencies
               /\ bldLog' = after.log
               /\ targetsLeft' = IF after.ok THEN Tail(targetsLeft) ELSE targetsLeft
               /\ bldPc' = IF after.ok THEN "loop" ELSE "aborted"
    /\ UNCHANGED <<bldIn, version, clock, inv, launchVars, publishVars, cliVars>>

\* after the loop: the wrapper package is assembled, its manifest written, and
\* published unless dry or a development build
EmitWrapper ==
    /\ bldPc = "loop"
    /\ targetsLeft = <<>>
    /\ LET publishes == ShouldPublish(bldIn.dry, bldIn.devBuild)
       IN \E outcome \in {"ok", "copy fails"} \cup (IF publishes THEN {"publish fails"} ELSE {}) :
            /\ dist' = IF outcome = "copy fails" THEN dist
                       ELSE WriteManifest(dist, WrapperManifest(Get(version), optionalDependencies))
            /\ binDirs' = IF outcome = "copy fails" THEN binDirs
                          ELSE PutFiles(binDirs, MainPackageName, {"opencode"})
            /\ npm' = IF outcome = "ok" /\ publishes
                      THEN Append(npm, [name |-> MainPackageName, version |-> Get(version),
                                        tag |-> NpmTag(bldIn.snapshot)])
                      ELSE npm
            /\ bldPc' = IF outcome = "ok" THEN "done" ELSE "aborted"
    /\ UNCHANGED <<bldIn, version, targetsLeft, optionalDependencies, bldLog, clock, inv,
                   launchVars, publishVars, cliVars>>

NextBuild ==
    \/ Tick
    \/ StartBuild
    \/ BuildTarget
    \/ EmitWrapper

SpecBuild == InitBuild /\ [][NextBuild]_vars

----------------------------------------------------------------------------
(* The code command of the host tool (packages/wrangler/src/code/index.ts).   *)
(* A command line is the options before the command, the command, and what   *)
(* follows the command; main is given their concatenation.                   *)

\* Array.prototype.slice(n)
Slice(a, n) == SubSeq(a, n + 1, Len(a))

\* findIndex((arg) => arg === x): the zero-based index of the first x, -1 when none
FindIndex(a, x) ==
    IF \E i \in 1..Len(a) : a[i] = x
    THEN (CHOOSE i \in 1..Len(a) : a[i] = x /\ \A j \in 1..(i - 1) : a[j] # x) - 1
    ELSE -1

\* what the handler passes to proxyToOpenCode
ForwardedArgs(processArgv) ==
    LET originalArgs == Slice(processArgv, 2)
        codeIndex == FindIndex(originalArgs, "code")
    IN IF codeIndex = -1 THEN originalArgs ELSE Slice(originalArgs, codeIndex + 1)

\* options of the host tool, with their values, before the command
GlobalOptions == {<<>>, <<"-e", "code">>, <<"--cwd", "code">>, <<"-e", "staging">>}

\* what follows the command
TrailingArgs ==
    {<<>>, <<"auth">>, <<"--help">>, <<"run", "--model", "gpt-4", "hello">>,
     <<"code">>, <<"run", "code", "review">>}

\* process.argv of a test runner that calls main itself
RunnerArgv == {<<"node", "vitest">>, <<"node", "vitest", "run">>}

\* the entry point calls main(hideBin(process.argv)); a test calls main with a
\* command line of its own under the runner's process.argv
CliInputs ==
    { [ globals |-> g, command |-> c, rest |-> r, processArgv |-> <<"node", "wrangler">> \o g \o <<c>> \o r ] :
        g \in GlobalOptions, c \in {"code", "deploy"}, r \in TrailingArgs }
    \cup
    { [ globals |-> <<>>, command |-> c, rest |-> r, processArgv |-> a ] :
        c \in {"code", "deploy"}, r \in TrailingArgs, a \in RunnerArgv }

InitCode ==
    /\ NoLaunch
    /\ NoInvocations
    /\ NoPublish
    /\ NoBuild
    /\ cliPc = "main"
    /\ cliIn \in CliInputs
    /\ proxyCalls = <<>>

\* main hands the command line to the handler of its command
Main ==
    /\ cliPc = "main"
    /\ cliPc' = IF cliIn.command = "code" THEN "code handler" ELSE "other handler"
    /\ UNCHANGED <<cliIn, proxyCalls, launchVars, concurrentVars, publishVars, buildVars>>

\* the handler of the code command
CodeHandler ==
    /\ cliPc = "code handler"
    /\ proxyCalls' = Append(proxyCalls, ForwardedArgs(cliIn.processArgv))
    /\ cliPc' = "done"
    /\ UNCHANGED <<cliIn, launchVars, concurrentVars, publishVars, buildVars>>

\* the handler of another command
OtherHandler ==
    /\ cliPc = "other handler"
    /\ cliPc' = "done"
    /\ UNCHANGED <<cliIn, proxyCalls, launchVars, concurrentVars, publishVars, buildVars>>

NextCode ==
    \/ Main
    \/ CodeHandler
    \/ OtherHandler

SpecCode == InitCode /\ [][NextCode]_vars

----------------------------------------------------------------------------
(* Properties *)

\* runInteractiveSession has settled: its caller continues or has finished
SessionSettled == pc \in {"catch", "return", "done"} /\ "gather" \in Range(log) /\ IsSome(context)

Happened(step) == step \in Range(log)

\* the first position of a step in the log, 0 when it never happened
FirstIndex(step) ==
    IF Happened(step) THEN CHOOSE i \in 1..Len(log) : log[i] = step /\ \A j \in 1..(i - 1) : log[j] # step
    ELSE 0

\* the exit event that settled the promise reported the number c
ExitedWith(c) ==
    IsSome(observed) /\ Get(observed).kind = "exit" /\ Get(observed).code = Some(c)

\* C1 as stated: once runInteractiveSession has settled after writeContextFile
\* returned a path, no file exists at that path.
C1_ContextFileGone ==
    (SessionSettled /\ IsSome(contextFile)) => disk[Get(contextFile)] = None

\* C1, amended: once runInteractiveSession has settled after writeContextFile
\* returned a path, unlink was called on that path exactly once, and the file
\* is still on disk only if that unlink failed.
C1_ContextFileUnlinkedOnce ==
    (SessionSettled /\ IsSome(contextFile)) =>
        /\ unlinks = 1
        /\ (disk[Get(contextFile)] # None => Happened("unlink failed"))
        /\ (Happened("unlink") => disk[Get(contextFile)] = None)

C1_Witness ==
    /\ pc = "done"
    /\ IsSome(contextFile)
    /\ promise = "rejected"
    /\ Happened("unlink")
    /\ disk[Get(contextFile)] = None

\* C2: when the exit event reports code 0 runInteractiveSession resolves (it
\* throws nothing to its caller); when it reports a number N other than 0 it
\* rejects, and the decimal digits of N are part of the error's message; a null
\* code (the child was ended by a signal) rejects too.
C2_ExitCodeDecidesOutcome ==
    (IsSome(observed) /\ Get(observed).kind = "exit") =>
        /\ ExitedWith(0) => (promise = "resolved" /\ thrown = None /\ pc \in {"finally", "return", "done"})
        /\ ~ExitedWith(0) => (promise = "rejected" /\ IsSome(thrown) /\ pc \in {"finally", "catch", "done"})
        /\ \A n \in 1..255 : ExitedWith(n) => Includes(Get(thrown), Decimal(n))

C2_Witness ==
    /\ pc = "catch"
    /\ ExitedWith(127)
    /\ promise = "rejected"
    /\ Includes(Get(thrown), <<"1","2","7">>)

\* a stage of the launch failed, read off the steps taken
LaunchFailed ==
    \/ ~IsSome(cfgIn.cwd)
    \/ Happened("write failed")
    \/ Happened("resolution failed")
    \/ Happened("spawn threw")
    \/ Happened("error")
    \/ (Happened("exit") /\ ~ExitedWith(0))

\* C3: launchOpenCode never ends by throwing; when a stage failed (gathering,
\* the write, the resolution, the spawn, a non-zero exit) it has logged the
\* error and the notice and terminated the host with status 1; otherwise (the
\* child exited with 0) it returns and the host is not terminated.
C3_FailureExitsOneOnly ==
    /\ launch # "threw"
    /\ hostExit \in {None, Some(1)}
    /\ pc = "done" =>
        /\ LaunchFailed => /\ launch = "exited"
                           /\ hostExit = Some(1)
                           /\ SubSeq(log, Len(log) - 2, Len(log)) = <<"logger.error", "logger.log", "process.exit">>
        /\ ~LaunchFailed => (launch = "returned" /\ hostExit = None /\ ExitedWith(0))
    /\ pc # "done" => (launch = "running" /\ hostExit = None)

C3_Witness ==
    /\ pc = "done"
    /\ Happened("resolution failed")
    /\ launch = "exited"
    /\ hostExit = Some(1)

\* C4 as stated: with an initial instruction, the host ends with the code the
\* child reported: terminated with N when the child exited with N other than
\* 0, not terminated (it goes on to end with 0) when the child exited with 0.
C4_ParentMirrorsChild ==
    (pc = "done" /\ IsSome(initialPrompt)) =>
        \A c \in 0..255 : ExitedWith(c) => hostExit = (IF c = 0 THEN None ELSE Some(c))

\* C4, amended: with an initial instruction, the host's exit tells only whether
\* the child's code was 0: for every code other than 0 (and for a null code)
\* launchOpenCode terminates the host with status 1, and for code 0 it returns
\* without terminating the host.
C4_ParentExitsOneOnAnyFailure ==
    (pc = "done" /\ IsSome(initialPrompt) /\ Happened("exit")) =>
        IF ExitedWith(0) THEN hostExit = None /\ launch = "returned"
        ELSE hostExit = Some(1) /\ launch = "exited"

C4_Witness ==
    /\ pc = "done"
    /\ IsSome(initialPrompt)
    /\ ExitedWith(2)
    /\ hostExit = Some(1)

\* an initial instruction was supplied: args.prompt is a non-empty string
PromptSupplied == args.t = "string" /\ Len(args.v) > 0

\* C5: the spawned child's environment holds OPENCODE_INITIAL_PROMPT exactly
\* when args.prompt is a non-empty string, and then with that string as its
\* value; it always holds OPENCODE_CONTEXT_FILE, the path of the context file.
C5_PromptOnlyWhenSupplied ==
    IsSome(child) =>
        /\ IsSome(Get(child).env["OPENCODE_INITIAL_PROMPT"]) <=> PromptSupplied
        /\ PromptSupplied => Get(child).env["OPENCODE_INITIAL_PROMPT"] = Some(args.v)
        /\ Get(child).env["OPENCODE_CONTEXT_FILE"] = contextFile

\* two configuration files that differ at most in the values of the variables
\* whose keys are classified as secrets
SameExceptSecretValues(f, g) ==
    /\ [f EXCEPT !.vars = None] = [g EXCEPT !.vars = None]
    /\ IsSome(f.vars) = IsSome(g.vars)
    /\ IsSome(f.vars) =>
        /\ Len(Get(f.vars)) = Len(Get(g.vars))
        /\ \A i \in 1..Len(Get(f.vars)) :
            /\ Get(f.vars)[i].key = Get(g.vars)[i].key
            /\ ~IsSecretKey(Get(f.vars)[i].key) => Get(f.vars)[i].value = Get(g.vars)[i].value

\* the text that would have been written had the configuration file been g
ContextTextFor(g) ==
    StringifyContext(GatherProjectContext(Get(cfgIn.cwd), [cfgIn EXCEPT !.file = g]))

\* C6: the context file carries no value of a secret variable: whatever
\* configuration differs from the one read only in the values of variables
\* whose keys match SECRET, KEY or TOKEN yields the same file contents.
C6_SecretValuesNotInContextFile ==
    (pc = "try" /\ IsSome(contextFile)) =>
        \A g \in Files :
            SameExceptSecretValues(cfgIn.file, g) => ContextTextFor(g) = Get(disk[Get(contextFile)])

\* getOpenCodeCommand has been called
Resolved == Happened("resolution failed") \/ Happened("spawn threw") \/ Happened("spawn")

\* C7: whenever the workspace entry point exists, the resolution succeeds with
\* the command bun and the arguments run <entry point>, whether or not the
\* installed package resolves and holds a binary.
C7_WorkspaceEntryPreferred ==
    (Resolved /\ fs.workspaceEntry) =>
        /\ ~Happened("resolution failed")
        /\ opencodeDir = None
        /\ IsSome(child) =>
            /\ Get(child).command = <<"bun">>
            /\ Get(child).args = <<<<"run">>, WorkspaceOpenCodePath, Get(context).projectRoot>>

C7_Witness ==
    /\ IsSome(child)
    /\ fs.workspaceEntry
    /\ fs.requireDir = Some(RequirePkgDir)
    /\ RequirePkgDir \in fs.bins
    /\ Get(child).command = <<"bun">>
    /\ Get(child).args[2] = WorkspaceOpenCodePath

\* C8: when the resolution fails although a package directory was found (the
\* binary is absent from it) the error is "binary not found", and the error
\* "package not found" is thrown only when no package directory was found.
C8_BinaryNotFoundIsDistinct ==
    Happened("resolution failed") =>
        /\ IsSome(opencodeDir) => thrown = Some(MsgBinaryNotFound)
        /\ thrown = Some(MsgPackageNotFound) => ~IsSome(opencodeDir)

\* the nearest of dir and its ancestors, the root included, that holds the package
NearestInstalled(dir, installed) ==
    LET holding == {k \in 0..Len(dir) : SubSeq(dir, 1, k) \in installed}
    IN IF holding = {} THEN None
       ELSE Some(CandidatePath(SubSeq(dir, 1, CHOOSE k \in holding : \A m \in holding : m <= k)))

\* C9: when require.resolve throws, the walk ends with the package directory of
\* the nearest directory, among the working directory and all its ancestors up
\* to and including the root, whose node_modules holds the package, and with
\* no directory only if none of them holds it.
C9_WalkFindsNearestUpToRoot ==
    (Resolved /\ ~fs.workspaceEntry /\ ~IsSome(fs.requireDir)) =>
        opencodeDir = NearestInstalled(Get(context).projectRoot, fs.installed)

\* every unlink in the log comes after the child's exit or error event
UnlinkAfterEvent ==
    \A i \in 1..Len(log) :
        log[i] \in {"unlink", "unlink failed"} =>
            \E j \in 1..(i - 1) : log[j] \in {"exit", "error"}

\* C10: a child is spawned only after the context file was written (after a
\* failed write the error goes to the caller and nothing is spawned); while the
\* child has reported neither exit nor error the file is on disk with the
\* context in it, and no unlink precedes the event; after a failed resolution
\* the file is unlinked and nothing was spawned.
C10_WriteSpawnEventUnlink ==
    /\ Happened("spawn") =>
        /\ 0 < FirstIndex("write") /\ FirstIndex("write") < FirstIndex("spawn")
        /\ UnlinkAfterEvent
    /\ Happened("write failed") => (pc \in {"catch", "done"} /\ ~Happened("spawn") /\ child = None)
    /\ pc = "waiting" =>
        /\ disk[Get(contextFile)] = Some(StringifyContext(Get(context)))
        /\ unlinks = 0
    /\ (Happened("resolution failed") /\ pc \in {"catch", "done"}) =>
        (unlinks = 1 /\ ~Happened("spawn") /\ child = None)

C10_Witness ==
    /\ pc = "done"
    /\ log = <<"gather", "write", "spawn", "exit", "unlink", "logger.error", "logger.log", "process.exit">>
    /\ disk[Get(contextFile)] = None

----------------------------------------------------------------------------
(* Properties of gatherProjectContext *)

\* the bindings record of a project without a configuration
DefaultBindings ==
    [ kv_namespaces |-> <<>>, durable_objects |-> <<>>, r2_buckets |-> <<>>,
      d1_databases |-> <<>>, queues |-> [producers |-> <<>>, consumers |-> <<>>],
      services |-> <<>>, analytics_engine_datasets |-> <<>>, ai |-> None, browser |-> None,
      vectorize |-> <<>>, hyperdrive |-> <<>>, workflows |-> <<>>,
      mtls_certificates |-> <<>>, dispatch_namespaces |-> <<>>,
      vars |-> <<>>, secrets |-> <<>> ]

ListCategories ==
    { "kv_namespaces", "durable_objects", "r2_buckets", "d1_databases", "queues",
      "services", "analytics_engine_datasets", "vectorize", "hyperdrive", "workflows",
      "mtls_certificates", "dispatch_namespaces", "secrets" }

\* a printed value is an array
IsJsonArray(tokens) == tokens # <<>> /\ tokens[1] = "["

\* the printed value of one category of a bindings record
CategoryJson(b, category) ==
    LET at == CHOOSE i \in 1..Len(BindingsFields(b)) : BindingsFields(b)[i].name = category
    IN BindingsFields(b)[at].val

\* C13: in every context returned, every category of the bindings record other
\* than ai, browser and vars is a list, and without a configuration each of
\* those lists is empty, vars is the empty object and secrets is the empty list.
C13_CategoriesAreLists ==
    IsSome(context) =>
        /\ \A c \in ListCategories :
            /\ IsSome(CategoryJson(Get(context).bindings, c))
            /\ IsJsonArray(Get(CategoryJson(Get(context).bindings, c)))
        /\ (Get(context).wranglerConfig = None =>
                /\ \A c \in ListCategories :
                        CategoryJson(Get(context).bindings, c) = Some(<<"[", "]">>)
                /\ Get(context).bindings.vars = <<>>
                /\ Get(context).bindings.secrets = <<>>)

\* C13, the state that refutes it: a context gathered without a configuration
\* whose queues category is printed as an object
C13_QueuesIsAnObject ==
    /\ IsSome(context)
    /\ Get(context).wranglerConfig = None
    /\ Get(CategoryJson(Get(context).bindings, "queues"))[1] = "{"

\* the word occurs in the characters, at some position
OccursIn(word, chars) ==
    \E i \in 1..(Len(chars) - Len(word) + 1) : SubSeq(chars, i, i + Len(word) - 1) = word

\* the key, uppercased, contains SECRET, KEY or TOKEN
LooksSecret(key) == \E word \in {SECRET, KEY, TOKEN} : OccursIn(word, ToUpperCase(key))

\* list is the elements of all that satisfy LooksSecret, in the order of all
IsSecretSublist(list, all) ==
    \E pos \in [1..Len(list) -> 1..Len(all)] :
        /\ \A i \in 1..Len(list) : list[i] = all[pos[i]]
        /\ \A i, j \in 1..Len(list) : i < j => pos[i] < pos[j]
        /\ \A k \in 1..Len(all) : LooksSecret(all[k]) <=> (\E i \in 1..Len(list) : pos[i] = k)

\* the variables of the configuration in the context, {} without one
ConfiguredVars == OrElse(ConfigField(Get(context).wranglerConfig, "vars"), <<>>)

\* C14: bindings.secrets is exactly the keys of the configured variables whose
\* uppercased form contains SECRET, KEY or TOKEN, in the order of the keys;
\* every element of it is a key; and a configuration with the same keys and
\* any other values yields the same list.  Stated of the context as
\* gatherProjectContext returns it.
C14_SecretsAreMatchingKeys ==
    (pc = "session" /\ IsSome(context)) =>
        LET secrets == Get(context).bindings.secrets
            keys == [i \in 1..Len(ConfiguredVars) |-> ConfiguredVars[i].key]
        IN /\ IsSecretSublist(secrets, keys)
           /\ \A i \in 1..Len(secrets) : secrets[i] \in Keys
           /\ \A other \in AllVars :
                [i \in 1..Len(other) |-> other[i].key] = keys =>
                    ExtractBindings(Some([EmptyFile EXCEPT !.vars = Some(other)])).secrets = secrets

C14_Witness ==
    /\ pc = "session"
    /\ IsSome(context)
    /\ Len(ConfiguredVars) = 2
    /\ ConfiguredVars[1].key = KeyDebug
    /\ ConfiguredVars[2].key = KeyMyToken
    /\ Get(context).bindings.secrets = <<KeyMyToken>>

\* the position of a supported filename in the fixed order
OrderOf(name) == CHOOSE i \in 1..Len(PossibleConfigFiles) : PossibleConfigFiles[i] = name

\* C15: configFiles holds the path of every supported filename present in the
\* project root and nothing else, in the order wrangler.toml, wrangler.json,
\* wrangler.jsonc, so its length is the number of files present, whether the
\* configuration reads succeeded or failed.
C15_ConfigFilesArePresentInOrder ==
    IsSome(context) =>
        LET files == Get(context).configFiles
            root == Get(context).projectRoot
        IN /\ Len(files) = Cardinality(cfgIn.present)
           /\ \A n \in cfgIn.present : \E i \in 1..Len(files) : files[i] = root \o <<n>>
           /\ \A i \in 1..Len(files) :
                /\ Len(files[i]) = Len(root) + 1
                /\ SubSeq(files[i], 1, Len(root)) = root
                /\ files[i][Len(root) + 1] \in cfgIn.present
           /\ \A i, j \in 1..Len(files) :
                i < j => OrderOf(files[i][Len(root) + 1]) < OrderOf(files[j][Len(root) + 1])
           /\ PossibleConfigFiles = <<"wrangler.toml", "wrangler.json", "wrangler.jsonc">>

C15_Witness ==
    /\ IsSome(context)
    /\ cfgIn.present = {"wrangler.toml", "wrangler.jsonc"}
    /\ cfgIn.read = "readRawConfig throws"
    /\ Get(context).configFiles = << <<"home", "wrangler.toml">>, <<"home", "wrangler.jsonc">> >>

----------------------------------------------------------------------------
(* Properties of concurrent invocations *)

\* invocation i holds a context file: it has written it and not yet unlinked it
HoldsContextFile(i) == inv[i].pc \in {"try", "waiting", "finally"}

\* C11: two invocations that hold a context file at the same time hold files
\* of different paths, and while the child of an invocation runs, the file at
\* the invocation's path exists and holds the context that invocation wrote.
C11_ConcurrentPathsDiffer ==
    /\ \A i, j \in Invocations :
        (i # j /\ HoldsContextFile(i) /\ HoldsContextFile(j)) =>
            inv[i].contextFile # inv[j].contextFile
    /\ \A i \in Invocations :
        inv[i].pc = "waiting" =>
            disk[Get(inv[i].contextFile)] = Some(StringifyContext(ContextOf(i)))

\* C11, a state that refutes it: the child of invocation 1 runs while the file
\* it is to read was unlinked by invocation 2, which wrote the same path
C11_FileDeletedUnderRunningChild ==
    /\ inv[1].pc = "waiting"
    /\ inv[2].pc = "settled"
    /\ inv[2].contextFile = inv[1].contextFile
    /\ disk[Get(inv[1].contextFile)] = None

----------------------------------------------------------------------------
(* Properties of the publish script *)

\* the step ran, whatever its outcome
Ran(step) == \E i \in 1..Len(steps) : steps[i].step = step

\* the step ran and did not fail
Succeeded(step) == \E i \in 1..Len(steps) : steps[i].step = step /\ steps[i].ok

\* the position of a step that ran
RanAt(step) == CHOOSE i \in 1..Len(steps) : steps[i].step = step

\* C16: the publish command of the host tool is run only after the publish
\* command of the assistant package has run and succeeded in the same run; when
\* the assistant's publish failed or did not run, the host tool's publish never
\* runs.
C16_HostPublishedAfterAssistant ==
    /\ Ran("publish wrangler") =>
        /\ Succeeded("publish opencode")
        /\ RanAt("publish opencode") < RanAt("publish wrangler")
    /\ pubPc = "publish wrangler" => Succeeded("publish opencode")
    /\ (pubPc \in {"done", "exited"} /\ ~Succeeded("publish opencode")) => ~Ran("publish wrangler")

C16_Witness ==
    /\ Succeeded("publish opencode")
    /\ Succeeded("publish wrangler")
    /\ steps[Len(steps)].step = "publish wrangler"
    /\ pubPc = "git add"

\* the steps of the script, as the claim lists them
StepsInOrder ==
    << "bump opencode", "bump wrangler", "update dependency", "build",
       "publish opencode", "publish wrangler", "git add", "git commit" >>

\* C17: the steps run in order, each at most once; a step that fails (a
\* package.json that cannot be read, parsed or written, a command that fails)
\* is the last one to run and the process has ended with a non-zero status;
\* the process ends with status 0 only after all eight steps succeeded; and
\* git commit runs only after both publish commands and git add succeeded.
C17_EveryStepIsFatal ==
    /\ Len(steps) <= Len(StepsInOrder)
    /\ \A i \in 1..Len(steps) :
        /\ steps[i].step = StepsInOrder[i]
        /\ ~steps[i].ok =>
            /\ i = Len(steps)
            /\ pubPc = "exited"
            /\ IsSome(exitCode)
            /\ Get(exitCode) # 0
    /\ pubPc = "exited" <=> (IsSome(exitCode) /\ Get(exitCode) # 0)
    /\ pubPc = "done" <=> exitCode = Some(0)
    /\ pubPc = "done" => (Len(steps) = Len(StepsInOrder) /\ \A i \in 1..Len(steps) : steps[i].ok)
    /\ Ran("git commit") =>
        (Succeeded("publish opencode") /\ Succeeded("publish wrangler") /\ Succeeded("git add"))

C17_Witness ==
    /\ pubPc = "exited"
    /\ exitCode = Some(1)
    /\ Len(steps) = 6
    /\ steps[6] = [step |-> "publish wrangler", ok |-> FALSE]
    /\ Succeeded("publish opencode")

\* the bump type in effect once it was validated
RequestedBump ==
    IF pubIn.argv2 = Some("major") THEN "major"
    ELSE IF pubIn.argv2 = Some("minor") THEN "minor" ELSE "patch"

\* the version a bump of M.m.p is to give
BumpedSemVer(M, m, p, bumpType) ==
    IF bumpType = "major" THEN SemVer(M + 1, 0, 0)
    ELSE IF bumpType = "minor" THEN SemVer(M, m + 1, 0)
    ELSE SemVer(M, m, p + 1)

\* the package's new version is the bump of the version the run found
BumpedFromOwn(pkg) ==
    \A M, m, p \in VersionParts :
        pubIn[pkg].version = SemVer(M, m, p) =>
            /\ newVersions[pkg] = Some(BumpedSemVer(M, m, p, RequestedBump))
            /\ manifests[pkg].version = BumpedSemVer(M, m, p, RequestedBump)

\* C18 as stated: each package at M.m.p is bumped to (M+1).0.0, M.(m+1).0 or
\* M.m.(p+1), and once both are bumped the two new versions are the same.
C18_SameNewVersionForBoth ==
    /\ \A pkg \in {"opencode", "wrangler"} : IsSome(newVersions[pkg]) => BumpedFromOwn(pkg)
    /\ (IsSome(newVersions.opencode) /\ IsSome(newVersions.wrangler)) =>
            newVersions.opencode = newVersions.wrangler

\* C18, amended: each package at M.m.p is bumped to (M+1).0.0, M.(m+1).0 or
\* M.m.(p+1) from its own version, both by the same bump type; the two new
\* versions are the same when the two packages were at the same version.
C18_EachBumpedFromItsOwnVersion ==
    /\ \A pkg \in {"opencode", "wrangler"} : IsSome(newVersions[pkg]) => BumpedFromOwn(pkg)
    /\ (IsSome(newVersions.opencode) /\ IsSome(newVersions.wrangler)
            /\ pubIn.opencode.version = pubIn.wrangler.version) =>
            newVersions.opencode = newVersions.wrangler

C18_Witness ==
    /\ pubIn.argv2 = Some("minor")
    /\ pubIn.opencode.version = <<"1", ".", "2", ".", "3">>
    /\ pubIn.wrangler.version = <<"4", ".", "9", ".", "0">>
    /\ newVersions.opencode = Some(<<"1", ".", "3", ".", "0">>)
    /\ newVersions.wrangler = Some(<<"4", ".", "1", "0", ".", "0">>)

\* C19: when the script stands at the build step or beyond it, the
\* dependencies of the host tool's package.json hold the assistant package
\* with the range ^<the assistant's new version>, whatever the package.json
\* held before.
C19_DependencyIsCaretOfNewVersion ==
    Ran("update dependency") /\ Succeeded("update dependency") =>
        manifests.wrangler.dependencies = Some(Some(<<"^">> \o Get(newVersions.opencode)))

\* C19, a state that refutes it: the build has succeeded and the host tool is
\* being published with a package.json that does not depend on the assistant
C19_BuildWithoutDependency ==
    /\ pubPc = "publish wrangler"
    /\ Succeeded("build")
    /\ pubIn.wrangler.dependencies = Some(None)
    /\ manifests.wrangler.dependencies = Some(None)

----------------------------------------------------------------------------
(* Properties of the build script *)

\* the run has removed the old dist and is building, has finished, or was
\* ended by a failed command
BuildRunning == bldPc \in {"loop", "done", "aborted"}

\* the names of the platform manifests in dist
TargetNamesInDist == {dist[i].name : i \in {k \in 1..Len(dist) : dist[k].name # MainPackageName}}

\* C20: once the run has removed the old dist, every manifest in dist carries
\* the run's one version string; the wrapper manifest, when written, comes
\* after every target of the run was built, and its optionalDependencies has
\* one entry for each platform manifest in dist and no other, each with that
\* version; a finished run has written the wrapper manifest.
C20_OneVersionInEveryManifest ==
    BuildRunning =>
        /\ \A i, j \in 1..Len(dist) : dist[i].version = dist[j].version
        /\ \A i \in 1..Len(dist) : dist[i].version = Get(version)
        /\ \A i \in 1..Len(dist) :
            dist[i].name = MainPackageName =>
                LET deps == Get(dist[i].optionalDependencies)
                IN /\ targetsLeft = <<>>
                   /\ {deps[k].name : k \in 1..Len(deps)} = TargetNamesInDist
                   /\ Len(deps) = Cardinality(TargetNamesInDist)
                   /\ Len(deps) = (IF bldIn.devBuild THEN 1 ELSE 5)
                   /\ \A k \in 1..Len(deps) : deps[k].value = dist[i].version
        /\ bldPc = "done" => \E i \in 1..Len(dist) : dist[i].name = MainPackageName

C20_Witness ==
    /\ bldPc = "done"
    /\ bldIn.snapshot
    /\ ~bldIn.devBuild
    /\ ~bldIn.dry
    /\ Len(dist) = 6
    /\ Len(npm) = 6
    /\ dist[6].name = MainPackageName
    /\ Len(Get(dist[6].optionalDependencies)) = 5
    /\ dist[6].version = <<"0", ".", "0", ".", "0", "-", "2","0","2","5","0","1","0","1","0","0","0","2">>

\* the script was invoked with a bump type that is none of patch, minor, major
\* (no argument, or an empty one, stands for patch)
InvalidBumpRequested ==
    IsSome(pubIn.argv2) /\ Get(pubIn.argv2) \notin {"", "patch", "minor", "major"}

\* C29: invoked with a bump type outside patch, minor, major, the script ends
\* with a non-zero status before any step: no step has run and both
\* package.json files are as the run found them; with a valid bump type the
\* script does not end before its first step has run.
C29_InvalidBumpTypeExitsFirst ==
    /\ (InvalidBumpRequested /\ pubPc # "main") =>
        /\ pubPc = "exited"
        /\ IsSome(exitCode)
        /\ Get(exitCode) # 0
        /\ steps = <<>>
        /\ manifests = [opencode |-> pubIn.opencode, wrangler |-> pubIn.wrangler]
        /\ newVersions = [opencode |-> None, wrangler |-> None]
    /\ (~InvalidBumpRequested /\ pubPc \in {"exited", "done"}) => steps # <<>>

C29_Witness ==
    /\ pubIn.argv2 = Some("premajor")
    /\ pubPc = "exited"
    /\ exitCode = Some(1)
    /\ steps = <<>>

\* the step that failed, "none" when none did
FailedStep ==
    IF steps # <<>> /\ ~steps[Len(steps)].ok THEN steps[Len(steps)].step ELSE "none"

\* C30: after the build or a publish command failed, the two package.json
\* files still hold the bumped versions (which differ from the versions the
\* run found) and the host tool's dependencies are as the rewrite left them
\* (^<new assistant version> where an entry existed); neither git add nor git
\* commit has run; and after a failed host tool publish the assistant's
\* publish has succeeded and nothing has undone it.
C30_NoRollback ==
    (pubPc = "exited" /\ FailedStep \in {"build", "publish opencode", "publish wrangler"}) =>
        /\ manifests.opencode.version = Get(newVersions.opencode)
        /\ manifests.wrangler.version = Get(newVersions.wrangler)
        /\ manifests.opencode.version # pubIn.opencode.version
        /\ manifests.wrangler.version # pubIn.wrangler.version
        /\ manifests.wrangler.dependencies =
              (IF pubIn.wrangler.dependencies \in {None, Some(None), Some(Some(<<>>))}
               THEN pubIn.wrangler.dependencies
               ELSE Some(Some(<<"^">> \o Get(newVersions.opencode))))
        /\ ~Ran("git add")
        /\ ~Ran("git commit")
        /\ (FailedStep = "publish wrangler" =>
                /\ Succeeded("publish opencode")
                /\ \A i \in 1..Len(steps) : steps[i].step \in Range(StepsInOrder))

C30_Witness ==
    /\ pubPc = "exited"
    /\ FailedStep = "publish wrangler"
    /\ Succeeded("publish opencode")
    /\ pubIn.opencode.version = <<"1", ".", "2", ".", "3">>
    /\ manifests.opencode.version = <<"1", ".", "2", ".", "4">>
    /\ manifests.wrangler.dependencies = Some(Some(<<"^", "1", ".", "2", ".", "4">>))

\* the invoking host as an (OS, architecture) pair, win32 under the name the
\* build gives it
HostPair ==
    << IF bldIn.platform = "win32" THEN "windows" ELSE bldIn.platform, bldIn.arch >>

FivePairs ==
    << <<"linux", "arm64">>, <<"linux", "x64">>, <<"darwin", "x64">>,
       <<"darwin", "arm64">>, <<"windows", "x64">> >>

C22_TargetManifestShape ==
    BuildRunning =>
        \A i \in 1..Len(dist) :
            dist[i].name # MainPackageName =>
                \E k \in 1..Len(bldLog) :
                    LET t == bldLog[k].target
                        m == dist[i]
                        exe == IF t[1] = "windows" THEN "opencode.exe" ELSE "opencode"
                    IN /\ bldLog[k].step = "write manifest"
                       /\ bldLog[k].ok
                       /\ m.name = MainPackageName \o <<"-", t[1], "-", t[2]>>
                       /\ IsSome(m.os)
                       /\ Len(Get(m.os)) = 1
                       /\ Get(m.os)[1] = (IF t[1] = "windows" THEN "win32" ELSE t[1])
                       /\ IsSome(m.cpu)
                       /\ Len(Get(m.cpu)) = 1
                       /\ Get(m.cpu)[1] = t[2]
                       /\ m.main = <<"./bin/", exe>>
                       /\ m.bin.opencode = <<"./bin/", exe>>
                       /\ exe \in FilesOf(binDirs, m.name)

C22_Witness ==
    /\ bldPc = "done"
    /\ \E i \in 1..Len(dist) :
        /\ dist[i].name = <<"@jahands/opencode-cf", "-", "windows", "-", "x64">>
        /\ dist[i].os = Some(<<"win32">>)
        /\ dist[i].cpu = Some(<<"x64">>)
        /\ dist[i].main = <<"./bin/", "opencode.exe">>
        /\ dist[i].bin.opencode = <<"./bin/", "opencode.exe">>
    /\ \E i \in 1..Len(dist) :
        /\ dist[i].name = <<"@jahands/opencode-cf", "-", "darwin", "-", "arm64">>
        /\ dist[i].os = Some(<<"darwin">>)
        /\ dist[i].main = <<"./bin/", "opencode">>

\* the steps the claim orders
OrderedSteps == <<"go build", "bun build", "rm tui", "write manifest">>

\* where x stands in a sequence without repetitions, 0 when it does not
IndexIn(seq, x) ==
    IF \E i \in 1..Len(seq) : seq[i] = x
    THEN CHOOSE i \in 1..Len(seq) : seq[i] = x
    ELSE 0

\* every ordered step of the target has run and succeeded
StepsComplete(target) ==
    \A n \in 1..Len(OrderedSteps) :
        \E k \in 1..Len(bldLog) :
            bldLog[k].target = target /\ bldLog[k].step = OrderedSteps[n] /\ bldLog[k].ok

\* C27: the statements that ran belong to targets of the matrix, in matrix
\* order and one target after another: a target is begun only when every
\* target before it in the matrix has completed its steps; for each target
\* compile, bundle, removal of the native binary and manifest run in that
\* order, each after the one before it succeeded and none twice; from the
\* removal on the bin directory holds no native binary, and after the manifest
\* it holds the executable.
C27_TargetsAndStepsInOrder ==
    BuildRunning =>
        LET matrix == BuildTargets(bldIn.devBuild, bldIn.platform, bldIn.arch)
            at(k) == IndexIn(matrix, bldLog[k].target)
            stepOf(k) == IndexIn(OrderedSteps, bldLog[k].step)
        IN /\ \A k \in 1..Len(bldLog) : at(k) # 0
           /\ \A j, k \in 1..Len(bldLog) : j < k => at(j) <= at(k)
           /\ \A k \in 1..Len(bldLog) :
                \A n \in 1..(at(k) - 1) : StepsComplete(matrix[n])
           /\ \A k \in 2..Len(bldLog) :
                bldLog[k].target # bldLog[k - 1].target => bldLog[k - 1].ok
           /\ \A j, k \in 1..Len(bldLog) :
                (j < k /\ bldLog[j].target = bldLog[k].target /\ stepOf(j) # 0 /\ stepOf(k) # 0)
                    => stepOf(j) < stepOf(k)
           /\ \A k \in 1..Len(bldLog) :
                stepOf(k) > 1 =>
                    \E j \in 1..(k - 1) :
                        /\ bldLog[j].target = bldLog[k].target
                        /\ bldLog[j].step = OrderedSteps[stepOf(k) - 1]
                        /\ bldLog[j].ok
           /\ \A n \in 1..Len(matrix) :
                LET name == MainPackageName \o <<"-", matrix[n][1], "-", matrix[n][2]>>
                    exe == IF matrix[n][1] = "windows" THEN "opencode.exe" ELSE "opencode"
                IN /\ (\E k \in 1..Len(bldLog) :
                          bldLog[k].target = matrix[n] /\ bldLog[k].step = "rm tui" /\ bldLog[k].ok)
                      => "tui" \notin FilesOf(binDirs, name)
                   /\ StepsComplete(matrix[n]) => FilesOf(binDirs, name) = {exe}
           /\ (bldPc = "done" \/ (bldPc = "loop" /\ targetsLeft = <<>>)) =>
                \A n \in 1..Len(matrix) : StepsComplete(matrix[n])

C27_Witness ==
    /\ bldPc = "done"
    /\ ~bldIn.devBuild
    /\ \A n \in 1..Len(FivePairs) : StepsComplete(FivePairs[n])
    /\ bldLog[1] = [target |-> <<"linux", "arm64">>, step |-> "mkdir", ok |-> TRUE]
    /\ bldLog[2] = [target |-> <<"linux", "arm64">>, step |-> "go build", ok |-> TRUE]
    /\ bldLog[3] = [target |-> <<"linux", "arm64">>, step |-> "bun build", ok |-> TRUE]
    /\ bldLog[4] = [target |-> <<"linux", "arm64">>, step |-> "rm tui", ok |-> TRUE]
    /\ bldLog[5] = [target |-> <<"linux", "arm64">>, step |-> "write manifest", ok |-> TRUE]
    /\ bldLog[Len(bldLog)].target = <<"windows", "x64">>
    /\ FilesOf(binDirs, <<"@jahands/opencode-cf", "-", "windows", "-", "x64">>) = {"opencode.exe"}

\* C28: a run with --dry or --dev has published nothing; the wrapper package
\* is the last thing a run publishes, and when it is published each of the
\* five target packages has been published before it at the same version, its
\* manifest is in dist and its executable in its bin directory.
C28_WrapperPublishedLast ==
    /\ (bldIn.dry \/ bldIn.devBuild) => npm = <<>>
    /\ \A i \in 1..Len(npm) :
        npm[i].name = MainPackageName =>
            /\ i = Len(npm)
            /\ \A n \in 1..Len(FivePairs) :
                LET name == MainPackageName \o <<"-", FivePairs[n][1], "-", FivePairs[n][2]>>
                    exe == IF FivePairs[n][1] = "windows" THEN "opencode.exe" ELSE "opencode"
                IN /\ \E k \in 1..(i - 1) :
                        npm[k].name = name /\ npm[k].version = npm[i].version
                   /\ \E d \in 1..Len(dist) : dist[d].name = name
                   /\ exe \in FilesOf(binDirs, name)

C28_Witness ==
    /\ bldPc = "done"
    /\ ~bldIn.dry
    /\ ~bldIn.devBuild
    /\ ~bldIn.snapshot
    /\ Len(npm) = 6
    /\ npm[6].name = MainPackageName
    /\ npm[6].tag = "latest"
    /\ \A k \in 1..5 : npm[k].name # MainPackageName

\* what runInteractiveSession throws after the step that ended its try block:
\* nothing after exit code 0, else the error of the exit, of the error event,
\* of the failed spawn or of the failed resolution
OriginalOutcome ==
    IF Happened("resolution failed")
        THEN Some(GetOpenCodeCommand(fs, Get(context).projectRoot).message)
    ELSE IF Happened("spawn threw") THEN Some(<<"spawn E2BIG">>)
    ELSE IF Happened("error")
        THEN Some(<<"Failed to launch Wrangler AI: ">> \o Get(observed).message)
    ELSE IF ExitedWith(0) THEN None
    ELSE Some(<<"Wrangler AI exited with code ">> \o
              (IF IsSome(Get(observed).code) THEN Decimal(Get(Get(observed).code))
               ELSE <<"n","u","l","l">>))

\* C24: after an unlink of the context file that failed, runInteractiveSession
\* ends as the try block ended: it throws nothing when the child exited with
\* 0 and launchOpenCode returns, and otherwise throws the error of the exit,
\* the error event, the spawn or the resolution to launchOpenCode's catch
\* block; no error of the unlink is thrown or logged.
C24_UnlinkFailureChangesNothing ==
    Happened("unlink failed") =>
        /\ thrown = OriginalOutcome
        /\ thrown # Some(<<"EPERM: unlink">>)
        /\ ExitedWith(0) => (thrown = None /\ pc \in {"return", "done"} /\ launch \in {"running", "returned"})
        /\ ~ExitedWith(0) => (IsSome(thrown) /\ pc \in {"catch", "done"} /\ launch \in {"running", "exited"})
        /\ pc = "done" => launch = (IF ExitedWith(0) THEN "returned" ELSE "exited")

C24_Witness ==
    /\ Happened("unlink failed")
    /\ pc = "done"
    /\ ExitedWith(2)
    /\ thrown = Some(<<"Wrangler AI exited with code ", "2">>)
    /\ hostExit = Some(1)
    /\ disk[Get(contextFile)] # None

\* the first event of the child
FirstEventRejects == IsSome(observed) /\ ~ExitedWith(0)

\* how often a step is in the log
Count(step) == Cardinality({i \in 1..Len(log) : log[i] = step})

\* C26: whichever of exit and error comes first, and whether or not the other
\* follows it, the promise is settled by the first: resolved after exit code
\* 0 and rejected otherwise, with the first event's error thrown; the later
\* event changes neither; the unlink is attempted once, after the first event.
C26_FirstEventSettlesOnce ==
    IsSome(observed) =>
        /\ promise = (IF FirstEventRejects THEN "rejected" ELSE "resolved")
        /\ thrown = OriginalOutcome
        /\ Count("exit") + Count("error") = 1
        /\ unlinks <= 1
        /\ Count("unlink") + Count("unlink failed") = unlinks
        /\ pc \in {"catch", "return", "done"} => unlinks = 1
        /\ (Happened("late exit") \/ Happened("late error")) =>
              (pc = "finally" <=> unlinks = 0)

C26_Witness ==
    /\ pc = "done"
    /\ IsSome(observed)
    /\ Get(observed).kind = "error"
    /\ Happened("late exit")
    /\ FirstIndex("late exit") < FirstIndex("unlink")
    /\ promise = "rejected"
    /\ thrown = Some(<<"Failed to launch Wrangler AI: ", "spawn ENOENT">>)
    /\ unlinks = 1

\* C25: while runInteractiveSession waits, the promise is pending, no unlink
\* was attempted and the context file is on disk; nothing but an exit or error
\* event of the child ends the wait; after a spawn the call has settled or
\* attempted the cleanup only if the child emitted an event; and once the
\* child has emitted an event the call settles and attempts the cleanup once.
C25_SettlesIffChildEmits ==
    /\ [](pc = "waiting" =>
            /\ promise = "pending"
            /\ ~IsSome(observed)
            /\ unlinks = 0
            /\ disk[Get(contextFile)] # None)
    /\ [][pc = "waiting" => (pc' = "waiting" \/ IsSome(observed'))]_vars
    /\ []((Happened("spawn") /\ (promise # "pending" \/ unlinks > 0 \/ pc # "waiting"))
            => IsSome(observed))
    /\ (IsSome(observed) ~> (promise # "pending" /\ unlinks = 1 /\ pc \in {"catch", "return", "done"}))

C25_Witness ==
    /\ pc = "return"
    /\ Happened("spawn")
    /\ ExitedWith(0)
    /\ promise = "resolved"
    /\ unlinks = 1
    /\ disk[Get(contextFile)] = None

\* C23: when the run of a command line is over, proxyToOpenCode has been
\* called once, with the arguments that follow the command, when the command
\* is code, and has not been called when the command is another.
C23_ForwardsTrailingArgsVerbatim ==
    cliPc = "done" =>
        proxyCalls = (IF cliIn.command = "code" THEN << cliIn.rest >> ELSE <<>>)

\* wrangler -e code code auth has called proxyToOpenCode with code, auth
C23_OptionValueTakenForCommand ==
    /\ cliPc = "done"
    /\ cliIn.processArgv = <<"node", "wrangler", "-e", "code", "code", "auth">>
    /\ cliIn.command = "code"
    /\ cliIn.rest = <<"auth">>
    /\ proxyCalls = << <<"code", "auth">> >>

====
